---------------------------- MODULE Spec2Model ----------------------------
(***************************************************************************)
(* A model of the three gymnastics result parsers:                          *)
(*   src/team_allaround.py        parse_pdf_team  (forward scan + context)  *)
(*   src/individual_allaround.py  parse_pdf       (fixed-offset stitching)  *)
(*   src/events.py                parse_events_pdf (column union)           *)
(*                                                                          *)
(* Text representation.                                                     *)
(*  - A normalized line is a sequence of whitespace-separated tokens.  A    *)
(*    token is a record [k, neg, v, w, dec, s]:                             *)
(*      k = "num"     a number; v is its value in units of 0.0001 (signed), *)
(*                    dec the number of digits after the point (0: integer) *)
(*                    and neg tells that it is written with a leading "-"   *)
(*                    ("-0" and "-0.000" are v = 0 with neg)                *)
(*      k = "paren"   "(v)", an integer in parentheses                      *)
(*      k = "glued"   two 3-decimal numbers v and w printed without a space *)
(*                    (w is not negative; neg is the sign written before v) *)
(*      k = "text"    any other token: s is its characters, a non-empty     *)
(*                    sequence of one-character strings without a digit     *)
(*                    (\d) or a space (\s) (neg is FALSE; a leading "-" is  *)
(*                    in s)                                                 *)
(*    Numbers have no leading zeros and fewer than three integer digits     *)
(*    when they carry decimals; the regular expressions of the source are   *)
(*    translated for this token universe.                                   *)
(*  - Cell text and column names (line normalizer, events pipeline) are     *)
(*    sequences of one-character strings, over the characters a string of   *)
(*    this module can hold (listed with IsWordChar).                        *)
(*  - A float field of a record is [nan |-> BOOLEAN, v |-> Int]; Python's   *)
(*    None is the empty tuple and a present optional value a 1-tuple.       *)
(***************************************************************************)
EXTENDS Integers, Sequences, FiniteSets, TLC

VARIABLES
    pc,         \* position of the running pipeline
    lines,      \* the filtered sequence of normalized lines
    i, j,       \* outer and inner scan indices (0-based, as in the source)
    ctx_rank, ctx_noc,          \* team context
    bib, name, ds_tokens, e_tokens, \* locals of the athlete branch
    rows,       \* team pipeline output
    records,    \* individual pipeline output
    raw,        \* line normalizer: the raw cell grid
    all_rows,   \* events pipeline: per-page blocks
    out_df,     \* the DataFrame a pipeline hands back or writes
    normed,     \* events pipeline: the blocks reindexed to the column union
    out_csv,    \* events pipeline: the text of the file written
    cols,       \* make_unique_columns: input / output column list
    parsed,     \* the result of an Execution/Penalty matcher applied to e_tokens
    report      \* what the pipeline printed (team: the list of partial athletes)

vars == <<pc, lines, i, j, ctx_rank, ctx_noc, bib, name, ds_tokens, e_tokens,
          rows, records, raw, all_rows, out_df, cols, parsed, report, normed, out_csv>>

(***************************************************************************)
(* Bounds                                                                   *)
(***************************************************************************)
MaxLines == 4
MaxTokens == 5
MaxCells == 2
MaxRows == 2
MaxCols == 4
MaxPages == 2
MaxDataRows == 2

(***************************************************************************)
(* Values                                                                   *)
(***************************************************************************)
None == <<>>
Some(x) == <<x>>
NaN == [nan |-> TRUE, v |-> 0]
Val(x) == [nan |-> FALSE, v |-> x]
Unit == 10000                   \* 1.0 in units of 0.0001

Min(a, b) == IF a <= b THEN a ELSE b
Abs(a) == IF a < 0 THEN -a ELSE a

RECURSIVE SeqsUpTo(_, _)
SeqsUpTo(S, n) ==
    IF n = 0 THEN {<<>>}
    ELSE LET shorter == SeqsUpTo(S, n - 1)
         IN  shorter \cup {Append(q, x) : q \in {r \in shorter : Len(r) = n - 1}, x \in S}

RECURSIVE Flatten(_)
Flatten(ss) == IF ss = <<>> THEN <<>> ELSE Head(ss) \o Flatten(Tail(ss))

(***************************************************************************)
(* Tokens                                                                   *)
(***************************************************************************)
Signed(neg, v, dec) ==
    [k |-> "num", neg |-> neg, v |-> v, w |-> 0, dec |-> dec, s |-> <<>>]
Num(v, dec) == Signed(v < 0, v, dec)
NegZero(dec) == Signed(TRUE, 0, dec)        \* "-0", "-0.000"
IntTok(n) == Num(n * Unit, 0)
Paren(n) == [k |-> "paren", neg |-> FALSE, v |-> n, w |-> 0, dec |-> 0, s |-> <<>>]
Glued(a, b) == [k |-> "glued", neg |-> a < 0, v |-> a, w |-> b, dec |-> 3, s |-> <<>>]
Txt(s) == [k |-> "text", neg |-> FALSE, v |-> 0, w |-> 0, dec |-> 0, s |-> s]
Dash == Txt(<<"-">>)
TokD == Txt(<<"D">>)
TokE == Txt(<<"E">>)

\* [A-Z], [a-z] and [A-Za-z'\-]
Capitals == {"A", "B", "C", "D", "E", "F", "G", "H", "I", "J", "K", "L", "M",
             "N", "O", "P", "Q", "R", "S", "T", "U", "V", "W", "X", "Y", "Z"}
Smalls == {"a", "b", "c", "d", "e", "f", "g", "h", "i", "j", "k", "l", "m",
           "n", "o", "p", "q", "r", "s", "t", "u", "v", "w", "x", "y", "z"}
NameChars == Capitals \cup Smalls \cup {"'", "-"}

\* IS_FLOAT = ^-?\d+(?:\.\d+)?$ on one token
IS_FLOAT(t) == t.k = "num"
\* str.startswith("-") on a token
StartsWithMinus(t) ==
    IF t.k = "text" THEN Head(t.s) = "-" ELSE t.k \in {"num", "glued"} /\ t.neg
\* a token that is exactly an unsigned integer, \d+
IsDigits(t) == t.k = "num" /\ t.dec = 0 /\ ~t.neg
\* a token that is exactly \d{1,3}\.\d{3}
IsFloat3(t) == t.k = "num" /\ t.dec = 3 /\ ~t.neg
\* a token that ends in \d{1,3}\.\d{3}
EndsInFloat3(t) == (t.k = "num" /\ t.dec = 3) \/ t.k = "glued"
\* [A-Z]{3} at the start of a sequence of characters
StartsWithCode(s) == Len(s) >= 3 /\ \A q \in 1..3 : s[q] \in Capitals
\* [A-Z][A-Za-z'\-]+ as a whole token
IsNameWord(t) ==
    /\ t.k = "text" /\ Len(t.s) >= 2
    /\ t.s[1] \in Capitals
    /\ \A q \in 2..Len(t.s) : t.s[q] \in NameChars
\* a token that is exactly the given characters
IsText(t, s) == t.k = "text" /\ t.s = s

\* " ".join(parts)
RECURSIVE join(_)
join(parts) ==
    IF parts = <<>> THEN <<>>
    ELSE IF Len(parts) = 1 THEN parts[1]
    ELSE parts[1] \o <<" ">> \o join(Tail(parts))

\* the text of the tokens p..q of a line
TextOf(ln, p, q) == join([o \in 1..(q - p + 1) |-> ln[p + o - 1].s])

(***************************************************************************)
(* Team pipeline: line role matchers (src/team_allaround.py)                *)
(***************************************************************************)
\* The index of the token that holds the "-" after the country code, or 0:
\* (?P<trank>\d+)\s+(?P<noc>[A-Z]{3})\s*-
TeamDashAt(ln) ==
    IF Len(ln) >= 2 /\ IsDigits(ln[1]) /\ ln[2].k = "text" /\ StartsWithCode(ln[2].s)
    THEN IF Len(ln[2].s) >= 4
         THEN IF ln[2].s[4] = "-" THEN 2 ELSE 0
         ELSE IF Len(ln) >= 3 /\ StartsWithMinus(ln[3]) THEN 3 ELSE 0
    ELSE 0

\* TEAM_HDR.match(ln): rank, code, "-", any text, four "score (rk)" and a total
\* that end the line.  The lazy .*? swallows whatever stands in front of the
\* vault score, also inside its token (a sign, a number glued to it), and the
\* "-" itself may be the sign at the start of that token.
TeamTailOK(ln) ==
    LET n == Len(ln)
        d == TeamDashAt(ln)
        vault == ln[n - 8]
    IN  /\ d > 0
        /\ n - 8 >= d
        /\ EndsInFloat3(vault)
        /\ \A q \in 1..3 : IsFloat3(ln[n - 8 + 2 * q])
        /\ \A q \in 0..3 : ln[n - 7 + 2 * q].k = "paren"
        /\ IsFloat3(ln[n]) /\ ln[n].v >= 10 * Unit

TEAM_HDR(ln) == TeamTailOK(ln)

\* mt.group("trank"), mt.group("noc")
TeamRank(ln) == ln[1].v \div Unit
TeamNoc(ln) == SubSeq(ln[2].s, 1, 3)

\* The number of name words that follow the bib: the greedy
\* [A-Z][A-Za-z'\-]+(?:\s[A-Z][A-Za-z'\-]+)*
RECURSIVE NameRun(_, _)
NameRun(ln, p) ==
    IF p <= Len(ln) /\ IsNameWord(ln[p]) THEN 1 + NameRun(ln, p + 1) ELSE 0

\* ATH_HDR.match(ln): a bib of three or more digits, name words, the token "D"
\* and a token that starts with "E" (D\s+E\s*(?P<trail>.*)$)
ATH_HDR(ln) ==
    LET r == NameRun(ln, 2)
    IN  /\ Len(ln) >= 4
        /\ IsDigits(ln[1]) /\ ln[1].v >= 100 * Unit
        /\ r >= 1
        /\ Len(ln) >= r + 3
        /\ IsText(ln[r + 2], <<"D">>)
        /\ ln[r + 3].k = "text" /\ Head(ln[r + 3].s) = "E"

AthBib(ln) == ln[1].v \div Unit
AthName(ln) == TextOf(ln, 2, NameRun(ln, 2) + 1)
\* ma.group("trail"): what follows the letter E, as tokens
AthTrail(ln) ==
    LET e == NameRun(ln, 2) + 3
    IN  (IF Len(ln[e].s) > 1 THEN <<Txt(Tail(ln[e].s))>> ELSE <<>>)
            \o SubSeq(ln, e + 1, Len(ln))

\* floats_from(s): the tokens that match IS_FLOAT
floats_from(toks) == SelectSeq(toks, IS_FLOAT)

\* parse_ds_pairs(tokens): (D, S) pairs from D1 S1 D2 S2 ..., at most four
parse_ds_pairs(tokens) ==
    LET n == Min(Len(tokens) \div 2, 4)
    IN  [q \in 1..n |-> <<tokens[2 * q - 1].v, tokens[2 * q].v>>]

\* parse_e_pen(tokens, max_groups): E with an optional negative Pen, repeated;
\* the loop stops at max_groups, at the end of the tokens or at a non-float.
RECURSIVE e_pen_loop(_, _, _, _)
e_pen_loop(t, p, vals, max_groups) ==
    IF ~(Len(vals) < max_groups /\ p <= Len(t)) THEN vals
    ELSE IF ~IS_FLOAT(t[p]) THEN vals
    ELSE IF p + 1 <= Len(t) /\ StartsWithMinus(t[p + 1]) /\ IS_FLOAT(t[p + 1])
         THEN e_pen_loop(t, p + 2, Append(vals, <<t[p].v, t[p + 1].v>>), max_groups)
         ELSE e_pen_loop(t, p + 1, Append(vals, <<t[p].v, 0>>), max_groups)

parse_e_pen(tokens, max_groups) == e_pen_loop(tokens, 1, <<>>, max_groups)

(***************************************************************************)
(* Binary floating point (IEEE 754 binary64, Python's float).  A natural    *)
(* number of any size is a sequence of limbs, digits in base 2^15, least    *)
(* significant first; a float is [neg, m]: the value                        *)
(* (-1)^neg * m * Base^(-FracLimbs).                                        *)
(***************************************************************************)
LimbBits == 15
Base == 2 ^ LimbBits
FracLimbs == 5
Mantissa == 53

\* the element of a set of one element; {F(v) : v \in {e}} computes e once
The(S) == CHOOSE x \in S : TRUE

RECURSIVE Limbs(_)
Limbs(n) == IF n = 0 THEN <<>> ELSE <<n % Base>> \o Limbs(n \div Base)

RECURSIVE LimbsValue(_)
LimbsValue(b) == IF b = <<>> THEN 0 ELSE Head(b) + Base * LimbsValue(Tail(b))

Zeros(k) == [q \in 1..k |-> 0]

\* b without its leading zero limbs
RECURSIVE Trim(_)
Trim(b) == IF b # <<>> /\ b[Len(b)] = 0 THEN Trim(SubSeq(b, 1, Len(b) - 1)) ELSE b

\* quotient and remainder of b by a small number d
RECURSIVE DivRem(_, _)
DivRem(b, d) ==
    IF b = <<>> THEN [q |-> <<>>, r |-> 0]
    ELSE The({[q |-> <<(Base * hi.r + Head(b)) \div d>> \o hi.q,
               r |-> (Base * hi.r + Head(b)) % d] : hi \in {DivRem(Tail(b), d)}})

\* b * m + carry for a small number m
RECURSIVE MulSmall(_, _, _)
MulSmall(b, m, carry) ==
    IF b = <<>> THEN Limbs(carry)
    ELSE The({<<x % Base>> \o MulSmall(Tail(b), m, x \div Base) :
                x \in {Head(b) * m + carry}})

RECURSIVE AddLimbs(_, _, _)
AddLimbs(a, b, carry) ==
    IF a = <<>> /\ b = <<>> THEN Limbs(carry)
    ELSE The({<<x % Base>> \o AddLimbs(IF a = <<>> THEN <<>> ELSE Tail(a),
                                       IF b = <<>> THEN <<>> ELSE Tail(b), x \div Base) :
                x \in {(IF a = <<>> THEN 0 ELSE Head(a)) + (IF b = <<>> THEN 0 ELSE Head(b))
                          + carry}})

\* a - b - borrow for a >= b
RECURSIVE SubLimbs(_, _, _)
SubLimbs(a, b, borrow) ==
    IF a = <<>> THEN <<>>
    ELSE The({<<x % Base>> \o SubLimbs(Tail(a), IF b = <<>> THEN <<>> ELSE Tail(b),
                                       IF x < 0 THEN 1 ELSE 0) :
                x \in {Head(a) - (IF b = <<>> THEN 0 ELSE Head(b)) - borrow}})

\* a < b for numbers without leading zeros
RECURSIVE LessLimbs(_, _)
LessLimbs(a, b) ==
    IF Len(a) # Len(b) THEN Len(a) < Len(b)
    ELSE IF a = <<>> THEN FALSE
    ELSE IF a[Len(a)] # b[Len(b)] THEN a[Len(a)] < b[Len(b)]
    ELSE LessLimbs(SubSeq(a, 1, Len(a) - 1), SubSeq(b, 1, Len(b) - 1))

\* the number of bits of b, a number without leading zeros
BitLen(b) ==
    IF b = <<>> THEN 0
    ELSE LimbBits * (Len(b) - 1)
            + (CHOOSE k \in 1..LimbBits : 2 ^ (k - 1) <= b[Len(b)] /\ b[Len(b)] < 2 ^ k)

\* bit k of b (bit 0 is the least significant)
Bit(b, k) == (b[(k \div LimbBits) + 1] \div (2 ^ (k % LimbBits))) % 2
\* the bits of b below bit k are zero
LowZero(b, k) ==
    /\ \A q \in 1..(k \div LimbBits) : b[q] = 0
    /\ b[(k \div LimbBits) + 1] % (2 ^ (k % LimbBits)) = 0

\* b (plus a fraction that is not zero when sticky) without its lowest drop
\* bits, rounded to nearest, ties to even
RoundAt(b, drop, sticky) ==
    LET q == drop \div LimbBits
        unit == 2 ^ (drop % LimbBits)
        kept == [o \in 1..Len(b) |->
                    IF o <= q THEN 0
                    ELSE IF o = q + 1 THEN (b[o] \div unit) * unit ELSE b[o]]
        up == /\ Bit(b, drop - 1) = 1
              /\ (sticky \/ Bit(b, drop) = 1 \/ ~LowZero(b, drop - 1))
    IN  The({IF up THEN AddLimbs(low, Zeros(q) \o <<unit>>, 0) ELSE low : low \in {kept}})

\* b0 (plus a fraction that is not zero when sticky) rounded to Mantissa
\* significant bits
RoundBits(b0, sticky) ==
    The({IF BitLen(b) <= Mantissa THEN b ELSE RoundAt(b, BitLen(b) - Mantissa, sticky) :
            b \in {Trim(b0)}})

\* the float nearest to b * Base^(-FracLimbs) / Unit, with the given sign
FloatOfLimbs(b, neg) ==
    The({[neg |-> neg, m |-> RoundBits(d.q, d.r # 0)] : d \in {DivRem(b, Unit)}})

\* float(t) of a token whose decimal value is n units of 0.0001
Float(n) == The({FloatOfLimbs(b, n < 0) : b \in {Zeros(FracLimbs) \o Limbs(Abs(n))}})

\* x + y on floats
FloatAdd(x, y) ==
    IF x.neg = y.neg THEN [neg |-> x.neg, m |-> RoundBits(AddLimbs(x.m, y.m, 0), FALSE)]
    ELSE IF x.m = y.m THEN [neg |-> FALSE, m |-> <<>>]
    ELSE IF LessLimbs(x.m, y.m)
         THEN [neg |-> y.neg, m |-> RoundBits(SubLimbs(y.m, x.m, 0), FALSE)]
         ELSE [neg |-> x.neg, m |-> RoundBits(SubLimbs(x.m, y.m, 0), FALSE)]

\* p * Base^(-FracLimbs) rounded to the nearest integer, ties to even
NearestWhole(p) ==
    LET whole == LimbsValue(SubSeq(p, FracLimbs + 1, Len(p)))
        half == Base \div 2
        up == /\ p[FracLimbs] >= half
              /\ \/ whole % 2 = 1
                 \/ p[FracLimbs] > half
                 \/ \E q \in 1..(FracLimbs - 1) : p[q] # 0
    IN  whole + (IF up THEN 1 ELSE 0)

\* round(x, 3) on a float, in units of 0.0001: the multiple of 0.001 nearest to
\* the float's exact value, ties to even
FloatRound3(x) ==
    The({(IF v.neg THEN -10 ELSE 10)
            * The({NearestWhole(p) : p \in {MulSmall(v.m, 1000, 0) \o Zeros(FracLimbs)}}) :
            v \in {x}})

\* total after the first k scores were added to 0.0 (lines 122-133)
RECURSIVE FloatTotal(_, _)
FloatTotal(pairs, k) ==
    IF k = 0 THEN Float(0)
    ELSE The({FloatAdd(x, y) : x \in {FloatTotal(pairs, k - 1)}, y \in {Float(pairs[k][2])}})

\* the exact sum of the first k scores
RECURSIVE SumScores(_, _)
SumScores(pairs, k) == IF k = 0 THEN 0 ELSE SumScores(pairs, k - 1) + pairs[k][2]

\* round(total, 3) (line 141) in units of 0.0001.  A sum whose exact value is
\* not half way between two multiples of 0.001 is at least 0.0001 away from
\* the nearest half-way point, far more than the error of the float sum, so
\* the float rounds to the multiple nearest to the exact sum; for a sum that
\* is half way the float arithmetic decides.
Round3(pairs, k) ==
    LET x == SumScores(pairs, k)
    IN  IF x % 10 # 5 THEN ((x + 5) \div 10) * 10 ELSE FloatRound3(FloatTotal(pairs, k))

\* the number of apparatus groups of a team record
TeamK(ds_pairs, epen) == Min(Min(Len(ds_pairs), Len(epen)), 4)

\* TeamApp that defaults the penalty of an unresolved group to zero
TeamAppZeroPen(ds_pairs, epen, k, idx) ==
    IF idx <= k
    THEN [D |-> Val(ds_pairs[idx][1]), E |-> Val(epen[idx][1]),
          Pen |-> Val(epen[idx][2]), Score |-> Val(ds_pairs[idx][2]), Rk |-> None]
    ELSE [D |-> NaN, E |-> NaN, Pen |-> Val(0), Score |-> NaN, Rk |-> None]

\* one apparatus group of a team record (lines 125-139)
TeamApp(ds_pairs, epen, k, idx) ==
    IF idx <= k
    THEN [D |-> Val(ds_pairs[idx][1]), E |-> Val(epen[idx][1]),
          Pen |-> Val(epen[idx][2]), Score |-> Val(ds_pairs[idx][2]), Rk |-> None]
    ELSE [D |-> NaN, E |-> NaN, Pen |-> NaN, Score |-> NaN, Rk |-> None]

\* TeamTotal summing every D/Score pair instead of the first k
TeamTotalAllPairs(ds_pairs, k) ==
    IF k > 0 THEN Val(Round3(ds_pairs, Len(ds_pairs))) ELSE NaN

\* rec["Total"] (line 141)
TeamTotal(ds_pairs, k) == IF k > 0 THEN Val(Round3(ds_pairs, k)) ELSE NaN

\* the record built at lines 116-141
TeamRecord(rank, noc, b, nm, dst, et) ==
    LET ds_pairs == parse_ds_pairs(dst)
        epen == parse_e_pen(et, 4)
        k == TeamK(ds_pairs, epen)
    IN  [Rank |-> rank, Bib |-> b, Name |-> nm, NOC |-> noc,
         app |-> [idx \in 1..4 |-> TeamApp(ds_pairs, epen, k, idx)],
         Total |-> TeamTotal(ds_pairs, k)]

(***************************************************************************)
(* The DataFrame a record pipeline hands back: [columns, data]; a row of    *)
(* data keeps the shape of a record and every numeric cell is a float field *)
(***************************************************************************)
APPARATUS == <<"Vault", "UnevenBars", "BalanceBeam", "Floor">>
FIELDS == <<"Score", "D", "E", "Pen", "Rk">>

\* cols (team_allaround.py lines 149-151, individual_allaround.py lines 120-122)
RecordCols ==
    <<"Rank", "Bib", "Name", "NOC">>
        \o Flatten([a \in 1..4 |-> [f \in 1..5 |-> APPARATUS[a] \o "_" \o FIELDS[f]]])
        \o <<"Total">>

\* pd.to_numeric(errors="coerce") on a cell that holds None or a number of
\* the given scale (Unit for an int, 1 for a float in units of 0.0001)
to_numeric(x, scale) == IF x = None THEN NaN ELSE Val(x[1] * scale)

EmptyFrame == [columns |-> <<>>, data |-> <<>>]

\* lines 152-162: a row of df after the columns were ordered and coerced
TeamFrameRow(r) ==
    [Rank |-> to_numeric(r.Rank, Unit), Bib |-> Val(r.Bib * Unit),
     Name |-> r.Name, NOC |-> r.NOC,
     app |-> [idx \in 1..4 |->
                [Score |-> r.app[idx].Score, D |-> r.app[idx].D, E |-> r.app[idx].E,
                 Pen |-> r.app[idx].Pen, Rk |-> to_numeric(r.app[idx].Rk, Unit)]],
     Total |-> r.Total]

\* lines 152-162: df; every record holds every column, so line 157 adds none
TeamFrame(rs) ==
    IF rs = <<>> THEN EmptyFrame
    ELSE [columns |-> RecordCols, data |-> [q \in 1..Len(rs) |-> TeamFrameRow(rs[q])]]

\* lines 165-169: the athletes printed as partial, those with a Score that is NaN
IsPartial(r) == \E idx \in 1..4 : r.app[idx].Score.nan
Partials(df) ==
    LET p == SelectSeq(df.data, IsPartial)
    IN  [q \in 1..Len(p) |-> [Bib |-> p[q].Bib, Name |-> p[q].Name, NOC |-> p[q].NOC]]

(***************************************************************************)
(* Team pipeline: input lines                                               *)
(***************************************************************************)
Idle == <<>>

USA == <<"U", "S", "A">>
CHN == <<"C", "H", "N">>
Smith == <<"S", "m", "i", "t", "h">>
Jane == <<"J", "a", "n", "e">>
Lee == <<"L", "e", "e">>
Eve == <<"E", "v", "e">>

\* "13.500 (2) 14.000 (1) 14.500 (1) 56.000"
TeamTail == <<Num(135000, 3), Paren(2), Num(140000, 3), Paren(1), Num(145000, 3),
              Paren(1), Num(560000, 3)>>

\* "1 USA - United 14.000 (1) 13.500 (2) 14.000 (1) 14.500 (1) 56.000"
LineTeamUSA == <<IntTok(1), Txt(USA), Dash, Txt(<<"U", "n", "i", "t", "e", "d">>),
                 Num(140000, 3), Paren(1)>> \o TeamTail
\* "2 CHN - 6.40015.766 (1) 13.500 (2) 14.000 (1) 14.500 (1) 56.000"
LineTeamCHN == <<IntTok(2), Txt(CHN), Dash, Glued(64000, 157660), Paren(1)>> \o TeamTail
\* "123 Smith Jane D E 5.300 13.2332 5.600 14.100 5.000 13.000 6.000 12.5663 9.9"
LineAth4 == <<IntTok(123), Txt(Smith), Txt(Jane), TokD, TokE,
              Num(53000, 3), Num(132332, 4), Num(56000, 3), Num(141000, 3),
              Num(50000, 3), Num(130000, 3), Num(60000, 3), Num(125663, 4),
              Num(99000, 1)>>
\* "456 Lee D Eve 5.300 13.233 (3) 5.600 14.1002"
LineAth2 == <<IntTok(456), Txt(Lee), TokD, Txt(Eve), Num(53000, 3), Num(132330, 3),
              Paren(3), Num(56000, 3), Num(141002, 4)>>
\* "8.100 -0.100 8.500 7.900 -0.000 8.000 9.000"
LineE5 == <<Num(81000, 3), Num(-1000, 3), Num(85000, 3), Num(79000, 3),
            NegZero(3), Num(80000, 3), Num(90000, 3)>>
\* "-0.100 8.500 x"
LineE2 == <<Num(-1000, 3), Num(85000, 3), Txt(<<"x">>)>>
\* "Note x"
LineNote == <<Txt(<<"N", "o", "t", "e">>), Txt(<<"x">>)>>
\* "100 USA- D E 14.000 (1) 13.500 (2) 14.000 (1) 14.500 (1) 56.000"
LineBoth == <<IntTok(100), Txt(USA \o <<"-">>), TokD, TokE, Num(140000, 3), Paren(1)>>
                \o TeamTail

TeamLinePool == {LineTeamUSA, LineTeamCHN, LineAth4, LineAth2,
                 LineE5, LineE2, LineNote, LineBoth}

(***************************************************************************)
(* Team pipeline: parse_pdf_team, lines 79-147                              *)
(***************************************************************************)
\* lines[i] of the source (0-based)
At(k) == lines[k + 1]

InitTeam ==
    /\ lines \in SeqsUpTo(TeamLinePool, MaxLines)
    /\ pc = "outer"
    /\ i = 0 /\ j = 0
    /\ ctx_rank = None /\ ctx_noc = None
    /\ bib = None /\ name = None
    /\ ds_tokens = <<>> /\ e_tokens = <<>>
    /\ rows = <<>>
    /\ records = Idle /\ raw = Idle /\ all_rows = Idle /\ out_df = Idle /\ cols = Idle
    /\ parsed = Idle /\ report = Idle /\ normed = Idle /\ out_csv = Idle

NotTeam == UNCHANGED <<records, raw, all_rows, out_df, cols, parsed, report, normed, out_csv>>

\* the context a team header sets (lines 88-89)
TeamCtx(ln) == [rank |-> Some(TeamRank(ln)), noc |-> Some(TeamNoc(ln))]

\* AthGuard without the context test of line 94
AthGuardNoCtx(ln) == ATH_HDR(ln)

\* the guard of the athlete branch (line 94); a team-header match has already
\* taken the line at line 87
AthGuard(ln) == ATH_HDR(ln) /\ ctx_noc # None

\* InnerStops that breaks on an athlete header only
InnerStopsAthOnly(k) ==
    IF k >= Len(lines) THEN TRUE ELSE ATH_HDR(At(k))

\* the guard that ends the inner scan (line 105, line 108)
InnerStops(k) ==
    IF k >= Len(lines) THEN TRUE
    ELSE IF ATH_HDR(At(k)) THEN TRUE ELSE TEAM_HDR(At(k))

\* lines 86-91
TeamHeader ==
    /\ pc = "outer" /\ i < Len(lines)
    /\ TEAM_HDR(At(i))
    /\ ctx_rank' = TeamCtx(At(i)).rank
    /\ ctx_noc' = TeamCtx(At(i)).noc
    /\ i' = i + 1
    /\ UNCHANGED <<pc, lines, j, bib, name, ds_tokens, e_tokens, rows>>
    /\ NotTeam

\* lines 93-104
AthleteHeader ==
    /\ pc = "outer" /\ i < Len(lines)
    /\ ~TEAM_HDR(At(i))
    /\ AthGuard(At(i))
    /\ bib' = Some(AthBib(At(i)))
    /\ name' = Some(AthName(At(i)))
    /\ ds_tokens' = floats_from(AthTrail(At(i)))
    /\ e_tokens' = <<>>
    /\ j' = i + 1
    /\ pc' = "inner"
    /\ UNCHANGED <<lines, i, ctx_rank, ctx_noc, rows>>
    /\ NotTeam

\* lines 105-114, one iteration that does not break
InnerAbsorb ==
    /\ pc = "inner"
    /\ ~InnerStops(j)
    /\ e_tokens' = e_tokens \o floats_from(At(j))
    /\ j' = j + 1
    /\ UNCHANGED <<pc, lines, i, ctx_rank, ctx_noc, bib, name, ds_tokens, rows>>
    /\ NotTeam

\* EmitRecord without the assignment i = j of line 144
EmitRecordNoAdvance ==
    /\ pc = "inner"
    /\ InnerStops(j)
    /\ rows' = Append(rows, TeamRecord(ctx_rank, ctx_noc, bib[1], name[1],
                                       ds_tokens, e_tokens))
    /\ pc' = "outer"
    /\ UNCHANGED <<lines, i, j, ctx_rank, ctx_noc, bib, name, ds_tokens, e_tokens>>
    /\ NotTeam

\* the inner loop ends (line 105 or line 109), then lines 116-145
EmitRecord ==
    /\ pc = "inner"
    /\ InnerStops(j)
    /\ rows' = Append(rows, TeamRecord(ctx_rank, ctx_noc, bib[1], name[1],
                                       ds_tokens, e_tokens))
    /\ i' = j
    /\ pc' = "outer"
    /\ UNCHANGED <<lines, j, ctx_rank, ctx_noc, bib, name, ds_tokens, e_tokens>>
    /\ NotTeam

\* line 147
OtherLine ==
    /\ pc = "outer" /\ i < Len(lines)
    /\ ~TEAM_HDR(At(i))
    /\ ~AthGuard(At(i))
    /\ i' = i + 1
    /\ UNCHANGED <<pc, lines, j, ctx_rank, ctx_noc, bib, name, ds_tokens, e_tokens, rows>>
    /\ NotTeam

\* the outer loop ends (line 83); lines 149-171 build, report and return df
TeamDone ==
    /\ pc = "outer" /\ i >= Len(lines)
    /\ out_df' = TeamFrame(rows)
    /\ report' = Partials(TeamFrame(rows))
    /\ pc' = "done"
    /\ UNCHANGED <<lines, i, j, ctx_rank, ctx_noc, bib, name, ds_tokens, e_tokens, rows>>
    /\ UNCHANGED <<records, raw, all_rows, cols, parsed, normed, out_csv>>

NextTeam == TeamHeader \/ AthleteHeader \/ InnerAbsorb \/ EmitRecord \/ OtherLine \/ TeamDone

SpecTeam == InitTeam /\ [][NextTeam]_vars /\ WF_vars(NextTeam)

(***************************************************************************)
(* Team pipeline: properties                                                *)
(***************************************************************************)
Last(q) == q[Len(q)]
IsHeader(ln) == TEAM_HDR(ln) \/ ATH_HDR(ln)

\* the first index after k that holds a header line, or the number of lines
FirstHeaderAfter(k) ==
    LET H == {m \in (k + 1)..(Len(lines) - 1) : IsHeader(At(m))}
    IN  IF H = {} THEN Len(lines) ELSE CHOOSE m \in H : \A o \in H : m <= o

\* the last index before k that holds a team-header line, or -1
LastTeamBefore(k) ==
    LET H == {m \in 0..(k - 1) : m < Len(lines) /\ TEAM_HDR(At(m))}
    IN  IF H = {} THEN -1 ELSE CHOOSE m \in H : \A o \in H : m >= o

\* the float tokens of the lines at indices a..b, in order
RECURSIVE FloatsOfLines(_, _)
FloatsOfLines(a, b) ==
    IF a > b THEN <<>> ELSE floats_from(At(a)) \o FloatsOfLines(a + 1, b)

\* in a left-to-right reading of float tokens, the token at p is a penalty iff
\* it is written with a minus sign and the token before it is an execution score
RECURSIVE IsPenAt(_, _)
IsPenAt(t, p) == p > 1 /\ t[p].neg /\ ~IsPenAt(t, p - 1)

\* the number of (E, optional Pen) groups in the tokens, at most four
GroupCount(t) == Min(Cardinality({p \in 1..Len(t) : ~IsPenAt(t, p)}), 4)
PairCount(t) == Min(Len(t) \div 2, 4)

RECURSIVE SumOfScoreTokens(_, _)
SumOfScoreTokens(t, k) == IF k = 0 THEN 0 ELSE SumOfScoreTokens(t, k - 1) + t[2 * k].v

\* x is y rounded to 3 decimals (units of 0.0001): a multiple of 0.001 nearest
\* to y, either neighbour when y is half way
IsRounded3(x, y) == x % 10 = 0 /\ Abs(x - y) <= 5

Emits == Len(rows') = Len(rows) + 1

\* C2: in every record the team pipeline emits, with k = min(D/Score pairs,
\* E/Penalty groups, 4), exactly the first k apparatus Score fields are known
\* and carry the pair's Score, the other 4-k are the unknown marker, Total is
\* the sum of those k Scores rounded to 3 decimals, and Total is unknown
\* (not 0) when k = 0.
C2_TeamPartialRecord ==
    [][Emits =>
        LET r == Last(rows')
            k == Min(PairCount(ds_tokens), GroupCount(e_tokens))
        IN  /\ \A idx \in 1..4 : (idx <= k) <=> ~r.app[idx].Score.nan
            /\ \A idx \in 1..k : r.app[idx].Score.v = ds_tokens[2 * idx].v
            /\ k = 0 => r.Total = NaN
            /\ k > 0 => /\ ~r.Total.nan
                        /\ IsRounded3(r.Total.v, SumOfScoreTokens(ds_tokens, k))]_vars

\* C2 witness: a record with two resolved groups whose Total needed rounding
C2_Witness ==
    /\ rows # <<>>
    /\ ~Last(rows).app[2].Score.nan /\ Last(rows).app[3].Score.nan
    /\ Last(rows).Total.v # Last(rows).app[1].Score.v + Last(rows).app[2].Score.v

\* C3 (amended): the inner scan absorbs exactly the float tokens of the lines
\* strictly between the athlete line i and the first later header line (or
\* the end), that header becomes the outer loop's next line, every
\* team-header line replaces the context, and every line that matches the
\* athlete-header pattern and not the team-header pattern while a context
\* exists yields exactly one record.
C3_ScanCommon ==
    /\ Emits => /\ pc = "inner"
                /\ i' = FirstHeaderAfter(i)
                /\ e_tokens = FloatsOfLines(i + 1, i' - 1)
                /\ Last(rows').Bib = AthBib(At(i))
    /\ (pc = "outer" /\ i < Len(lines) /\ TEAM_HDR(At(i))) =>
            /\ ctx_rank' = Some(TeamRank(At(i))) /\ ctx_noc' = Some(TeamNoc(At(i)))
            /\ i' = i + 1 /\ pc' = "outer"
    /\ pc = "outer" => rows' = rows /\ (pc' = "outer" => i' = i + 1)
    /\ pc = "inner" => (pc' = "inner" /\ rows' = rows) \/ (pc' = "outer" /\ Emits)

C3_ForwardScan ==
    [][/\ C3_ScanCommon
       /\ (pc = "outer" /\ i < Len(lines) /\ ATH_HDR(At(i)) /\ ~TEAM_HDR(At(i))
              /\ ctx_noc # None) => pc' = "inner"]_vars

\* C3 witness: a record was emitted after a scan that absorbed a line and
\* stopped at a header line, which is now the outer loop's current line
C3_Witness ==
    /\ pc = "outer" /\ rows # <<>> /\ i < Len(lines) /\ i >= 2
    /\ IsHeader(At(i)) /\ ~IsHeader(At(i - 1)) /\ ATH_HDR(At(i - 2))
    /\ e_tokens # <<>>

\* C3 as stated: every athlete-header line seen while a context exists yields
\* a record (also when the line matches the team-header pattern as well)
C3_Original ==
    [][/\ C3_ScanCommon
       /\ (pc = "outer" /\ i < Len(lines) /\ ATH_HDR(At(i)) /\ ctx_noc # None)
              => pc' = "inner"]_vars

\* C4: the context is empty until the first team header, is exactly the rank
\* and country code of the most recent team-header line before the current
\* line, changes only at a team-header line, is never cleared, and every
\* emitted record carries the rank and code of the most recent team header
\* before its athlete line; without such a header no record is emitted.
C4_CtxIsLastTeam ==
    LET m == LastTeamBefore(i)
    IN  IF m = -1
        THEN ctx_rank = None /\ ctx_noc = None /\ rows = <<>>
        ELSE ctx_rank = Some(TeamRank(At(m))) /\ ctx_noc = Some(TeamNoc(At(m)))

C4_ContextTracking ==
    /\ [](pc \in {"outer", "inner", "done"} => C4_CtxIsLastTeam)
    /\ [][/\ (ctx_rank' # ctx_rank \/ ctx_noc' # ctx_noc) =>
                 pc = "outer" /\ i < Len(lines) /\ TEAM_HDR(At(i))
          /\ ctx_noc # None => ctx_noc' # None
          /\ ctx_rank # None => ctx_rank' # None
          /\ Emits => LET m == LastTeamBefore(i)
                      IN  /\ m # -1
                          /\ Last(rows').Rank = Some(TeamRank(At(m)))
                          /\ Last(rows').NOC = Some(TeamNoc(At(m)))]_vars

\* C4 witness: a record emitted under the second of two team headers
C4_Witness ==
    /\ rows # <<>>
    /\ Len(lines) >= 3 /\ At(0) = LineTeamUSA /\ At(1) = LineTeamCHN
    /\ Last(rows).NOC = Some(CHN) /\ Last(rows).Rank = Some(2)

\* C10: every outer step moves i forward by one or enters the inner scan at
\* j = i + 1, every inner step moves j forward by one or ends the scan with
\* i = j >= i + 1, the indices stay within the line sequence, and the scan
\* ends with i equal to the number of lines.
C10_Terminates ==
    /\ [][/\ pc = "outer" => \/ pc' = "outer" /\ i' = i + 1
                             \/ pc' = "inner" /\ i' = i /\ j' = i + 1
                             \/ pc' = "done" /\ i' = i
          /\ pc = "inner" => \/ pc' = "inner" /\ j' = j + 1 /\ i' = i
                             \/ pc' = "outer" /\ i' = j /\ i' >= i + 1]_vars
    /\ [](pc \in {"outer", "inner", "done"} => i <= Len(lines) /\ j <= Len(lines))
    /\ [](pc = "done" => i = Len(lines))
    /\ <>(pc = "done")

\* C10 witness: a finished scan that went through the inner loop
C10_Witness ==
    pc = "done" /\ rows # <<>> /\ e_tokens # <<>> /\ i = Len(lines) /\ j > 2

(***************************************************************************)
(* Individual pipeline: line role matchers (src/individual_allaround.py)    *)
(***************************************************************************)
\* [^\d]{0,40}: the characters a name chunk can hold after its capital
ChunkTail == 40

\* the positions of s at which a chunk [A-Z][^\d]{0,40}\s? can start, and the
\* position after s
ChunkStarts(s) == {p \in 1..Len(s) : s[p] \in Capitals} \cup {Len(s) + 1}

\* (?:[A-Z][^\d]{0,40}\s?)+? matches the whole of s, a text without digits: a
\* chunk starts at a capital and holds at most ChunkTail more characters and a
\* space after them, so the chunks cover s iff s starts with a capital and no
\* two neighbouring chunk starts are farther apart than that
NameChunksOK(s) ==
    /\ s # <<>>
    /\ s[1] \in Capitals
    /\ \A b \in ChunkStarts(s) \ {1} :
          LET a == CHOOSE x \in ChunkStarts(s) : x < b /\ \A y \in ChunkStarts(s) : y < b => y <= x
          IN  \/ b - a <= ChunkTail + 1
              \/ b - a = ChunkTail + 2 /\ s[b - 1] = " "

\* IDENTITY_RE.match(ln): rank, bib, a name without digits made of chunks that
\* start with a capital letter, a country code, "D", "E" at the end of the line
IDENTITY_RE(ln) ==
    LET n == Len(ln)
    IN  /\ n >= 6
        /\ IsDigits(ln[1]) /\ IsDigits(ln[2])
        /\ \A q \in 3..(n - 3) : ln[q].k = "text"
        /\ NameChunksOK(TextOf(ln, 3, n - 3))
        /\ ln[n - 2].k = "text" /\ Len(ln[n - 2].s) = 3 /\ StartsWithCode(ln[n - 2].s)
        /\ IsText(ln[n - 1], <<"D">>) /\ IsText(ln[n], <<"E">>)

IdRank(ln) == ln[1].v \div Unit
IdBib(ln) == ln[2].v \div Unit
IdName(ln) == TextOf(ln, 3, Len(ln) - 3)
IdNoc(ln) == ln[Len(ln) - 2].s

\* line 38: re.sub(r'(?<=\d\.\d{3})(?=\d)', ' ', line) puts a space after the
\* third decimal of a number that is followed by a digit
GlueSplit(t) ==
    IF t.k = "glued" THEN <<Signed(t.neg, t.v, 3), Num(t.w, 3)>>
    ELSE IF t.k = "num" /\ t.dec = 4
         THEN IF t.v >= 0
              THEN <<Signed(t.neg, (t.v \div 10) * 10, 3), IntTok(t.v % 10)>>
              ELSE <<Signed(t.neg, -(((-t.v) \div 10) * 10), 3), IntTok((-t.v) % 10)>>
         ELSE <<t>>

FixGlue(ln) == Flatten([q \in 1..Len(ln) |-> GlueSplit(ln[q])])

\* the three tokens a D_SCORE_RK match covers: D may be the tail of a signed
\* number, Score is a whole unsigned number, then "(rk)"
TripletAt(t, p) ==
    /\ p + 2 <= Len(t)
    /\ t[p].k = "num" /\ t[p].dec = 3
    /\ IsFloat3(t[p + 1])
    /\ t[p + 2].k = "paren"

\* D_SCORE_RK.finditer(line), lines 40-46
RECURSIVE finditer(_, _)
finditer(t, p) ==
    IF p > Len(t) THEN <<>>
    ELSE IF TripletAt(t, p)
         THEN <<[D |-> Abs(t[p].v), Score |-> t[p + 1].v, Rk |-> t[p + 2].v]>>
                  \o finditer(t, p + 3)
         ELSE finditer(t, p + 1)

\* lines 48-51: the last \d{1,2}\.\d{3} of the line, or None
LastFloat3(t) ==
    LET F == {p \in 1..Len(t) : t[p].k = "num" /\ t[p].dec = 3}
    IN  IF F = {} THEN None
        ELSE Some(Abs(t[CHOOSE p \in F : \A o \in F : p >= o].v))

\* parse_dscore_line(line)
parse_dscore_line(ln) ==
    LET t == FixGlue(ln)
    IN  [triplets |-> finditer(t, 1), total |-> LastFloat3(t)]

\* the result of parse_e_pen_line: no match (None) or the list of groups
NoMatch == [match |-> FALSE, groups |-> <<>>]
Matched(g) == [match |-> TRUE, groups |-> g]

\* parse_e_pen_line whose penalty test lacks startswith('-')
RECURSIVE e_pen_line_any_pen(_, _, _, _)
e_pen_line_any_pen(toks, p, out, n) ==
    IF n = 0 THEN Matched(out)
    ELSE IF p > Len(toks) \/ ~IS_FLOAT(toks[p]) THEN NoMatch
    ELSE IF p + 1 <= Len(toks) /\ IS_FLOAT(toks[p + 1])
         THEN e_pen_line_any_pen(toks, p + 2, Append(out, <<toks[p].v, toks[p + 1].v>>), n - 1)
         ELSE e_pen_line_any_pen(toks, p + 1, Append(out, <<toks[p].v, 0>>), n - 1)

\* parse_e_pen_line that returns the groups found so far instead of None
RECURSIVE e_pen_line_partial(_, _, _, _)
e_pen_line_partial(toks, p, out, n) ==
    IF n = 0 THEN Matched(out)
    ELSE IF p > Len(toks) \/ ~IS_FLOAT(toks[p]) THEN Matched(out)
    ELSE IF p + 1 <= Len(toks) /\ StartsWithMinus(toks[p + 1]) /\ IS_FLOAT(toks[p + 1])
         THEN e_pen_line_partial(toks, p + 2, Append(out, <<toks[p].v, toks[p + 1].v>>), n - 1)
         ELSE e_pen_line_partial(toks, p + 1, Append(out, <<toks[p].v, 0>>), n - 1)

\* the loop of parse_e_pen_line, lines 58-66: n iterations are left
RECURSIVE e_pen_line_loop(_, _, _, _)
e_pen_line_loop(toks, p, out, n) ==
    IF n = 0 THEN Matched(out)
    ELSE IF p > Len(toks) \/ ~IS_FLOAT(toks[p]) THEN NoMatch
    ELSE IF p + 1 <= Len(toks) /\ StartsWithMinus(toks[p + 1]) /\ IS_FLOAT(toks[p + 1])
         THEN e_pen_line_loop(toks, p + 2, Append(out, <<toks[p].v, toks[p + 1].v>>), n - 1)
         ELSE e_pen_line_loop(toks, p + 1, Append(out, <<toks[p].v, 0>>), n - 1)

parse_e_pen_line_any_pen(ln) == e_pen_line_any_pen(ln, 1, <<>>, 4)
parse_e_pen_line_partial(ln) == e_pen_line_partial(ln, 1, <<>>, 4)

\* parse_e_pen_line(line)
parse_e_pen_line(ln) == e_pen_line_loop(ln, 1, <<>>, 4)

\* line 93 negated: four triplets and four E/Pen pairs were parsed
BlockOK(d_trips, epen) ==
    ~(d_trips = <<>> \/ Len(d_trips) < 4 \/ ~epen.match \/ epen.groups = <<>>
        \/ Len(epen.groups) < 4)

\* the record built at lines 98-117
IndRecord(ln, d_trips, epen, total) ==
    [Rank |-> Some(IdRank(ln)), Bib |-> IdBib(ln), Name |-> IdName(ln),
     NOC |-> Some(IdNoc(ln)),
     app |-> [idx \in 1..4 |->
                [Score |-> Val(d_trips[idx].Score), D |-> Val(d_trips[idx].D),
                 E |-> Val(epen.groups[idx][1]), Pen |-> Val(epen.groups[idx][2]),
                 Rk |-> Some(d_trips[idx].Rk)]],
     Total |-> total]

\* lines 123-131: a row of df after the columns were ordered and coerced
IndFrameRow(r) ==
    [Rank |-> to_numeric(r.Rank, Unit), Bib |-> Val(r.Bib * Unit),
     Name |-> r.Name, NOC |-> r.NOC,
     app |-> [idx \in 1..4 |->
                [Score |-> r.app[idx].Score, D |-> r.app[idx].D, E |-> r.app[idx].E,
                 Pen |-> r.app[idx].Pen, Rk |-> to_numeric(r.app[idx].Rk, Unit)]],
     Total |-> to_numeric(r.Total, 1)]

\* lines 123-131: df; without records it has no columns
IndFrame(rs) ==
    IF rs = <<>> THEN EmptyFrame
    ELSE [columns |-> RecordCols, data |-> [q \in 1..Len(rs) |-> IndFrameRow(rs[q])]]

(***************************************************************************)
(* Individual pipeline: input lines                                         *)
(***************************************************************************)
\* "1 101 SMITH Jane USA D E"
LineId1 == <<IntTok(1), IntTok(101), Txt(<<"S", "M", "I", "T", "H">>), Txt(Jane), Txt(USA),
             TokD, TokE>>
\* "2 102 Lee x CHN D E"
LineId2 == <<IntTok(2), IntTok(102), Txt(Lee), Txt(<<"x">>), Txt(CHN), TokD, TokE>>
\* "3 103 Abbb...b USA D E": a name of one capital and 41 more letters
LineIdLong == <<IntTok(3), IntTok(103),
                Txt([q \in 1..(ChunkTail + 2) |-> IF q = 1 THEN "A" ELSE "b"]),
                Txt(USA), TokD, TokE>>
\* "6.400 15.766 (1) 5.300 13.233 (3) 5.600 14.100 (1) 5.000 13.000 (2) 56.099"
LineDS4 == <<Num(64000, 3), Num(157660, 3), Paren(1), Num(53000, 3), Num(132330, 3),
             Paren(3), Num(56000, 3), Num(141000, 3), Paren(1), Num(50000, 3),
             Num(130000, 3), Paren(2), Num(560990, 3)>>
\* "6.40015.766 (1) 5.300 13.233 (3) x 5.600 14.100 (1) 5.000 13.000 (2)"
LineDS4Glued == <<Glued(64000, 157660), Paren(1), Num(53000, 3), Num(132330, 3),
                  Paren(3), Txt(<<"x">>), Num(56000, 3), Num(141000, 3), Paren(1),
                  Num(50000, 3), Num(130000, 3), Paren(2)>>
\* "6.400 15.766 (1) 5.300 13.2332 (3) 5.600 14.100 (1) 5.000 13.000 (2) 56.099"
LineDS3 == <<Num(64000, 3), Num(157660, 3), Paren(1), Num(53000, 3), Num(132332, 4),
             Paren(3), Num(56000, 3), Num(141000, 3), Paren(1), Num(50000, 3),
             Num(130000, 3), Paren(2), Num(560990, 3)>>
\* "8.100 -0.100 8.500 7.900 8.000"
LineEP4 == <<Num(81000, 3), Num(-1000, 3), Num(85000, 3), Num(79000, 3), Num(80000, 3)>>
\* "8.100 8.200 -0.000 8.300"
LineEP3 == <<Num(81000, 3), Num(82000, 3), NegZero(3), Num(83000, 3)>>
\* "8.1 8.2 8.3 8.4 x"
LineEP4x == <<Num(81000, 1), Num(82000, 1), Num(83000, 1), Num(84000, 1), Txt(<<"x">>)>>

IndLinePool == {LineId1, LineId2, LineIdLong, LineDS4, LineDS4Glued, LineDS3,
                LineEP4, LineEP3, LineEP4x}

(***************************************************************************)
(* Individual pipeline: parse_pdf, lines 76-118                             *)
(***************************************************************************)
InitInd ==
    /\ lines \in SeqsUpTo(IndLinePool, MaxLines)
    /\ pc = "scan"
    /\ i = 0 /\ j = 0
    /\ records = <<>>
    /\ rows = <<>>
    /\ ctx_rank = Idle /\ ctx_noc = Idle /\ bib = Idle /\ name = Idle
    /\ ds_tokens = Idle /\ e_tokens = Idle
    /\ raw = Idle /\ all_rows = Idle /\ out_df = Idle /\ cols = Idle /\ parsed = Idle
    /\ report = Idle /\ normed = Idle /\ out_csv = Idle

NotInd == UNCHANGED <<j, rows, ctx_rank, ctx_noc, bib, name, ds_tokens, e_tokens,
                      raw, all_rows, out_df, cols, parsed, report, normed, out_csv>>

\* line 83 negated: both neighbours exist
HasNeighbours(k) == ~(k - 1 < 0 \/ k + 1 >= Len(lines))

\* lines 78-80
SkipNonIdentity ==
    /\ pc = "scan" /\ i < Len(lines)
    /\ ~IDENTITY_RE(At(i))
    /\ i' = i + 1
    /\ UNCHANGED <<pc, lines, records>>
    /\ NotInd

\* lines 83-84
SkipNoNeighbour ==
    /\ pc = "scan" /\ i < Len(lines)
    /\ IDENTITY_RE(At(i))
    /\ ~HasNeighbours(i)
    /\ i' = i + 1
    /\ UNCHANGED <<pc, lines, records>>
    /\ NotInd

\* lines 85-96
SkipMismatch ==
    /\ pc = "scan" /\ i < Len(lines)
    /\ IDENTITY_RE(At(i))
    /\ HasNeighbours(i)
    /\ ~BlockOK(parse_dscore_line(At(i - 1)).triplets, parse_e_pen_line(At(i + 1)))
    /\ i' = i + 1
    /\ UNCHANGED <<pc, lines, records>>
    /\ NotInd

\* lines 85-118
EmitIndividual ==
    /\ pc = "scan" /\ i < Len(lines)
    /\ IDENTITY_RE(At(i))
    /\ HasNeighbours(i)
    /\ LET ds == parse_dscore_line(At(i - 1))
           epen == parse_e_pen_line(At(i + 1))
       IN  /\ BlockOK(ds.triplets, epen)
           /\ records' = Append(records, IndRecord(At(i), ds.triplets, epen, ds.total))
    /\ i' = i + 1
    /\ UNCHANGED <<pc, lines>>
    /\ NotInd

\* the for loop ends (line 77); lines 120-132 build and return df
IndDone ==
    /\ pc = "scan" /\ i >= Len(lines)
    /\ out_df' = IndFrame(records)
    /\ pc' = "scanned"
    /\ UNCHANGED <<lines, i, records>>
    /\ UNCHANGED <<j, rows, ctx_rank, ctx_noc, bib, name, ds_tokens, e_tokens,
                   raw, all_rows, cols, parsed, report, normed, out_csv>>

NextInd == SkipNonIdentity \/ SkipNoNeighbour \/ SkipMismatch \/ EmitIndividual \/ IndDone

SpecInd == InitInd /\ [][NextInd]_vars

\* both record-emitting pipelines
InitRecords == InitTeam \/ InitInd
NextRecords == NextTeam \/ NextInd
SpecRecords == InitRecords /\ [][NextRecords]_vars

(***************************************************************************)
(* Individual pipeline: properties                                          *)
(***************************************************************************)
\* the number of "D Score (Rk)" groups of a line: the groups cannot overlap
DGroupCount(ln) ==
    LET t == FixGlue(ln)
    IN  Cardinality({p \in 1..Len(t) : TripletAt(t, p)})

\* the number of (E, optional Pen) groups at the start of a line, at most four
EGroupCount(ln) == Len(parse_e_pen(ln, 4))

\* the identity line at index k has a line above with four D/Score/Rk groups
\* and a line below with four E/Penalty groups
Qualifies(k) ==
    /\ IDENTITY_RE(At(k))
    /\ k - 1 >= 0 /\ DGroupCount(At(k - 1)) >= 4
    /\ k + 1 < Len(lines) /\ EGroupCount(At(k + 1)) >= 4

AllFive(g) == ~g.Score.nan /\ ~g.D.nan /\ ~g.E.nan /\ ~g.Pen.nan /\ g.Rk # None

\* C1: the step that handles line i appends a record iff line i is an identity
\* line whose line above parses to at least 4 D/Score/Rk groups and whose line
\* below parses to at least 4 E/Penalty groups; the record is that line's and
\* has all four apparatus groups filled; otherwise nothing is appended.
C1_AllOrNothing ==
    [][(pc = "scan" /\ i < Len(lines)) =>
         IF Qualifies(i)
         THEN /\ Len(records') = Len(records) + 1
              /\ SubSeq(records', 1, Len(records)) = records
              /\ Last(records').Bib = IdBib(At(i))
              /\ \A idx \in 1..4 : AllFive(Last(records').app[idx])
         ELSE records' = records]_vars

\* C1 witness: an identity line below a glued D/Score/Rk line was emitted, and
\* an identity line before it was skipped
C1_Witness ==
    /\ pc = "scanned" /\ Len(records) = 1 /\ Len(lines) >= 4
    /\ IDENTITY_RE(At(0)) /\ At(1) = LineDS4Glued /\ IDENTITY_RE(At(2))
    /\ records[1].Bib = IdBib(At(2))

(***************************************************************************)
(* Both pipelines: apparatus groups of emitted records                      *)
(***************************************************************************)
FourKnown(g) == ~g.Score.nan /\ ~g.D.nan /\ ~g.E.nan /\ ~g.Pen.nan
FourUnknown(g) == g.Score.nan /\ g.D.nan /\ g.E.nan /\ g.Pen.nan
AllAbsent(g) == FourUnknown(g) /\ g.Rk = None

Range(q) == {q[x] : x \in 1..Len(q)}

\* the rows of the DataFrame a pipeline has returned
FrameRows == IF pc \in {"done", "scanned"} THEN Range(out_df.data) ELSE {}

\* C5 (amended): in every record of the individual pipeline all five fields
\* of every apparatus group are present; in every record of the team pipeline
\* Score, D, E and Pen of a group are all present or all unknown, and Rk is
\* always unknown (None in the record, NaN in the returned DataFrame).
C5_GroupsWhole ==
    /\ \A r \in Range(records) : \A idx \in 1..4 : AllFive(r.app[idx])
    /\ \A r \in Range(rows) : \A idx \in 1..4 :
          /\ FourKnown(r.app[idx]) \/ FourUnknown(r.app[idx])
          /\ r.app[idx].Rk = None
    /\ pc = "scanned" => \A r \in FrameRows : \A idx \in 1..4 :
          FourKnown(r.app[idx]) /\ ~r.app[idx].Rk.nan
    /\ pc = "done" => \A r \in FrameRows : \A idx \in 1..4 :
          /\ FourKnown(r.app[idx]) \/ FourUnknown(r.app[idx])
          /\ r.app[idx].Rk.nan

\* C5 witness: a returned team record with a resolved and an unresolved group
C5_Witness ==
    /\ pc = "done"
    /\ \E r \in Range(rows) : FourKnown(r.app[1]) /\ FourUnknown(r.app[4])
    /\ \E r \in FrameRows : FourKnown(r.app[1]) /\ FourUnknown(r.app[4])

\* C5 as stated: the five fields of a group are all present or all absent
C5_Original ==
    /\ \A r \in Range(records) \cup Range(rows) : \A idx \in 1..4 :
          AllFive(r.app[idx]) \/ AllAbsent(r.app[idx])
    /\ \A r \in FrameRows : \A idx \in 1..4 :
          \/ FourKnown(r.app[idx]) /\ ~r.app[idx].Rk.nan
          \/ FourUnknown(r.app[idx]) /\ r.app[idx].Rk.nan

(***************************************************************************)
(* The Execution/Penalty matchers as functions of a token list              *)
(***************************************************************************)
\* "8.100", "-0.100", "-0.000", "8" and "x"
EPenTokenPool == {Num(81000, 3), Num(-1000, 3), NegZero(3), IntTok(8), Txt(<<"x">>)}

InitEPen ==
    /\ e_tokens \in SeqsUpTo(EPenTokenPool, MaxTokens)
    /\ pc = "tokens"
    /\ parsed = Idle
    /\ lines = Idle /\ i = 0 /\ j = 0 /\ ctx_rank = Idle /\ ctx_noc = Idle
    /\ bib = Idle /\ name = Idle /\ ds_tokens = Idle /\ rows = Idle /\ records = Idle
    /\ raw = Idle /\ all_rows = Idle /\ out_df = Idle /\ cols = Idle /\ report = Idle /\ normed = Idle /\ out_csv = Idle

NotEPen == UNCHANGED <<lines, i, j, ctx_rank, ctx_noc, bib, name, ds_tokens, e_tokens,
                       rows, records, raw, all_rows, out_df, cols, report, normed, out_csv>>

\* epen = parse_e_pen_line(e_line), individual pipeline line 90
ApplyParseEPenLine ==
    /\ pc = "tokens"
    /\ parsed' = [fn |-> "parse_e_pen_line",
                  match |-> parse_e_pen_line(e_tokens).match,
                  groups |-> parse_e_pen_line(e_tokens).groups]
    /\ pc' = "parsed"
    /\ NotEPen

\* epen = parse_e_pen(e_tokens, max_groups=4), team pipeline line 117
ApplyParseEPen ==
    /\ pc = "tokens"
    /\ parsed' = [fn |-> "parse_e_pen", match |-> TRUE,
                  groups |-> parse_e_pen(e_tokens, 4)]
    /\ pc' = "parsed"
    /\ NotEPen

NextEPen == ApplyParseEPenLine \/ ApplyParseEPen

SpecEPen == InitEPen /\ [][NextEPen]_vars

\* the float tokens before the first token that is not a float
RECURSIVE FloatPrefixLen(_, _)
FloatPrefixLen(t, p) ==
    IF p <= Len(t) /\ IS_FLOAT(t[p]) THEN 1 + FloatPrefixLen(t, p + 1) ELSE 0
FloatPrefix(t) == SubSeq(t, 1, FloatPrefixLen(t, 1))

\* the positions of the execution scores in a sequence of float tokens
EPositions(t) == {p \in 1..Len(t) : ~IsPenAt(t, p)}
\* the q-th smallest element of a set of numbers
NthOf(S, q) == CHOOSE x \in S : Cardinality({y \in S : y <= x}) = q

\* the groups read left to right: each execution score with the token written
\* with a minus sign that follows it ("-0.000" included), or with 0; at most four
ExpectedGroups(toks) ==
    LET t == FloatPrefix(toks)
        n == Min(Cardinality(EPositions(t)), 4)
    IN  [q \in 1..n |->
            LET p == NthOf(EPositions(t), q)
            IN  <<t[p].v, IF p + 1 <= Len(t) /\ IsPenAt(t, p + 1) THEN t[p + 1].v ELSE 0>>]

\* C6 (amended): both matchers read up to 4 groups of (E, optional Pen) left
\* to right, where Pen is a float token written with a leading minus sign
\* ("-0.000" included), Pen = 0 without such a token; on fewer than 4 groups
\* parse_e_pen (team) returns the groups found so far, and parse_e_pen_line
\* (individual) returns no match.
C6_Matchers ==
    pc = "parsed" =>
        LET g == ExpectedGroups(e_tokens)
        IN  /\ parsed.fn = "parse_e_pen" => parsed.groups = g
            /\ parsed.fn = "parse_e_pen_line" =>
                  IF Len(g) = 4 THEN parsed.match /\ parsed.groups = g
                  ELSE ~parsed.match

\* C6 witness: parse_e_pen_line found two groups in "8.100 -0.100 8.100 -0.000",
\* each with a penalty token, and returned no match
C6_Witness ==
    /\ pc = "parsed" /\ parsed.fn = "parse_e_pen_line" /\ ~parsed.match
    /\ e_tokens = <<Num(81000, 3), Num(-1000, 3), Num(81000, 3), NegZero(3)>>
    /\ ExpectedGroups(e_tokens) = <<<<81000, -1000>>, <<81000, 0>>>>

\* C6 as stated: on fewer than 4 groups either matcher returns the groups
\* found so far
C6_Original ==
    pc = "parsed" => parsed.match /\ parsed.groups = ExpectedGroups(e_tokens)

(***************************************************************************)
(* Line normalizer: norm and collapse_row (src/team_allaround.py 36-41,     *)
(* the same code as src/individual_allaround.py 28-33); text is a sequence  *)
(* of one-character strings                                                 *)
(***************************************************************************)
\* The characters str.strip() and \s take as whitespace (str.isspace): space,
\* tab, line feed, form feed, carriage return, and, written as the characters
\* themselves, vertical tab, U+001C to U+001F, U+0085, U+00A0 and U+1680.  The
\* other Unicode spaces (U+2000 to U+200A, U+2028, U+2029, U+202F, U+205F,
\* U+3000) cannot be written in a string of this module and are not part of
\* the texts it describes.
Whitespace == {" ", "\t", "\n", "\f", "\r",
               "", "", "", "", "", "", " ", " "}
IsSpace(c) == c \in Whitespace

RECURSIVE lstrip(_)
lstrip(t) == IF t # <<>> /\ IsSpace(Head(t)) THEN lstrip(Tail(t)) ELSE t
RECURSIVE rstrip(_)
rstrip(t) ==
    IF t # <<>> /\ IsSpace(t[Len(t)]) THEN rstrip(SubSeq(t, 1, Len(t) - 1)) ELSE t
\* str.strip()
strip(t) == rstrip(lstrip(t))

\* re.sub(r"\s+", " ", t)
RECURSIVE sub_spaces(_)
sub_spaces(t) ==
    IF t = <<>> THEN <<>>
    ELSE IF IsSpace(Head(t)) THEN <<" ">> \o sub_spaces(lstrip(t))
    ELSE <<Head(t)>> \o sub_spaces(Tail(t))

\* norm(s)
norm(t) == sub_spaces(strip(t))

TextNone == <<"N", "o", "n", "e">>
TextNan == <<"n", "a", "n">>

\* the cells collapse_row keeps
KeepCell(x) == strip(x) \notin {<<>>, TextNone, TextNan}
\* KeepCell that compares the cell without trimming it
KeepCellUntrimmed(x) == x \notin {<<>>, TextNone, TextNan}

\* collapse_row that tests the untrimmed cell text
collapse_row_untrimmed(row) == norm(join(SelectSeq(row, KeepCellUntrimmed)))

\* collapse_row(row)
collapse_row(row) == norm(join(SelectSeq(row, KeepCell)))

\* lines 76-77: the normalized lines of the grid, empty ones dropped
NonEmpty(t) == t # <<>>
LinesOf(grid) == SelectSeq([r \in 1..Len(grid) |-> collapse_row(grid[r])], NonEmpty)

\* cells: " <LF>", "<CR>nan<FF>", " a<LF><TAB>b<CR>"
CellBlank == <<" ", "\n">>
CellNan == <<"\r", "n", "a", "n", "\f">>
CellText == <<" ", "a", "\n", "\t", "b", "\r">>
CellPool == {CellBlank, CellNan, CellText}

\* the row ["", "12", "  SMITH   Jane ", "USA", "None"]
ExampleRow == << <<>>, <<"1", "2">>,
                 <<" ", " ", "S", "M", "I", "T", "H", " ", " ", " ", "J", "a", "n", "e", " ">>,
                 <<"U", "S", "A">>, TextNone >>
\* "12 SMITH Jane USA"
ExampleLine == <<"1", "2", " ", "S", "M", "I", "T", "H", " ", "J", "a", "n", "e", " ",
                 "U", "S", "A">>
\* the row ["nan x", "None", "Nonex"]
NearMissRow == << <<"n", "a", "n", " ", "x">>, TextNone, <<"N", "o", "n", "e", "x">> >>

RowPool == SeqsUpTo(CellPool, MaxCells) \cup {ExampleRow, NearMissRow}

InitLines ==
    /\ raw \in SeqsUpTo(RowPool, MaxRows)
    /\ pc = "raw"
    /\ lines = <<>>
    /\ i = 0 /\ j = 0 /\ ctx_rank = Idle /\ ctx_noc = Idle /\ bib = Idle /\ name = Idle
    /\ ds_tokens = Idle /\ e_tokens = Idle /\ rows = Idle /\ records = Idle
    /\ all_rows = Idle /\ out_df = Idle /\ cols = Idle /\ parsed = Idle /\ report = Idle /\ normed = Idle /\ out_csv = Idle

\* lines 76-77 (individual pipeline: lines 73-74)
BuildLines ==
    /\ pc = "raw"
    /\ lines' = LinesOf(raw)
    /\ pc' = "lines"
    /\ UNCHANGED <<i, j, ctx_rank, ctx_noc, bib, name, ds_tokens, e_tokens, rows,
                   records, raw, all_rows, out_df, cols, parsed, report, normed, out_csv>>

NextLines == BuildLines

SpecLines == InitLines /\ [][NextLines]_vars

\* the words of a text: its maximal runs of characters that are not spaces
RECURSIVE Words(_, _)
Words(t, cur) ==
    IF t = <<>> THEN (IF cur = <<>> THEN <<>> ELSE <<cur>>)
    ELSE IF IsSpace(Head(t))
         THEN (IF cur = <<>> THEN <<>> ELSE <<cur>>) \o Words(Tail(t), <<>>)
         ELSE Words(Tail(t), Append(cur, Head(t)))

IsPlaceholder(x) == Words(x, <<>>) \in {<<>>, <<TextNone>>, <<TextNan>>}

\* the words of the cells of a row that are not placeholders, in order
RECURSIVE RowWords(_)
RowWords(row) ==
    IF row = <<>> THEN <<>>
    ELSE (IF IsPlaceholder(Head(row)) THEN <<>> ELSE Words(Head(row), <<>>))
            \o RowWords(Tail(row))

\* C8: every normalized line is the words of the row's cells that are not
\* empty, "None" or "nan" after trimming, separated by single spaces; rows
\* without such words are dropped and the other lines keep their order.
C8_LineNormalizer ==
    pc = "lines" =>
        LET kept == SelectSeq([r \in 1..Len(raw) |-> RowWords(raw[r])], NonEmpty)
        IN  /\ Len(lines) = Len(kept)
            /\ \A q \in 1..Len(kept) : lines[q] = join(kept[q])

\* C8 witness: the example row after a row that was dropped
C8_Witness ==
    /\ pc = "lines" /\ Len(raw) = 2
    /\ raw[1] = <<CellBlank, CellNan>> /\ raw[2] = ExampleRow
    /\ lines = <<ExampleLine>>

(***************************************************************************)
(* Events pipeline: make_unique_columns (src/events.py 35-48)               *)
(***************************************************************************)
DigitChars == <<"0", "1", "2", "3", "4", "5", "6", "7", "8", "9">>

\* str(n) for a natural number
RECURSIVE Digits(_)
Digits(n) == IF n < 10 THEN <<DigitChars[n + 1]>>
             ELSE Digits(n \div 10) \o <<DigitChars[(n % 10) + 1]>>

TextUnnamed == <<"U", "n", "n", "a", "m", "e", "d">>

\* lines 39-41: the name a column is counted under
ColumnKey(c) == IF strip(c) = <<>> THEN TextUnnamed ELSE strip(c)

\* the loop of lines 38-47: seen maps a name to its count
RECURSIVE unique_loop(_, _, _)
unique_loop(cs, seen, out) ==
    IF cs = <<>> THEN out
    ELSE LET c == ColumnKey(Head(cs))
         IN  IF c \notin DOMAIN seen
             THEN unique_loop(Tail(cs), seen @@ (c :> 1), Append(out, c))
             ELSE LET n == seen[c] + 1
                  IN  unique_loop(Tail(cs), [seen EXCEPT ![c] = n],
                                  Append(out, c \o <<"_">> \o Digits(n)))

\* make_unique_columns(cols)
make_unique_columns(cs) == unique_loop(cs, <<>>, <<>>)

NameA == <<"A">>
NameA2 == <<"A", "_", "2">>
NameA22 == <<"A", "_", "2", "_", "2">>
NameSpA == <<" ", "A", "\n">>         \* " A<LF>"
NamePool == {NameA, NameA2, NameA22, NameSpA, <<>>}

InitCols ==
    /\ cols \in SeqsUpTo(NamePool, MaxCols)
    /\ pc = "headers"
    /\ lines = Idle /\ i = 0 /\ j = 0 /\ ctx_rank = Idle /\ ctx_noc = Idle
    /\ bib = Idle /\ name = Idle /\ ds_tokens = Idle /\ e_tokens = Idle
    /\ rows = Idle /\ records = Idle /\ raw = Idle /\ all_rows = Idle
    /\ out_df = Idle /\ parsed = Idle /\ report = Idle /\ normed = Idle /\ out_csv = Idle

NotCols == UNCHANGED <<lines, i, j, ctx_rank, ctx_noc, bib, name, ds_tokens, e_tokens,
                       rows, records, raw, all_rows, out_df, parsed, report, normed, out_csv>>

\* clean_table_keep_all_cols line 58: headers = make_unique_columns(headers)
UniqueHeaders ==
    /\ pc = "headers"
    /\ cols' = make_unique_columns(cols)
    /\ pc' = "unique"
    /\ NotCols

\* clean_table_keep_all_cols line 69: df.columns = make_unique_columns(df.columns)
UniqueAgain ==
    /\ pc = "unique"
    /\ cols' = make_unique_columns(cols)
    /\ pc' = "cleaned"
    /\ NotCols

NextCols == UniqueHeaders \/ UniqueAgain

SpecCols == InitCols /\ [][NextCols]_vars

Distinct(q) == \A a, b \in 1..Len(q) : a # b => q[a] # q[b]

\* C9: every application of make_unique_columns returns a list of the same
\* length as its input whose names are pairwise distinct.
C9_Unique ==
    [][pc' # pc => Len(cols') = Len(cols) /\ Distinct(cols')]_vars

(***************************************************************************)
(* Events pipeline: parse_events_pdf (src/events.py 72-126)                 *)
(*                                                                          *)
(* The table camelot extracts from a page is a grid: a non-empty sequence   *)
(* of rows of equal length whose cells are texts.  A DataFrame is           *)
(* [columns |-> names, data |-> rows]; a row holds one cell per column and  *)
(* a cell is [k, neg, v, t]:                                                *)
(*   k = "str"    the text t                                                *)
(*   k = "nan"    the missing value                                         *)
(*   k = "int"    the integer v / Unit (int64)                              *)
(*   k = "float"  the float v / Unit; neg is its sign bit (float64)         *)
(* Numerals in cells have at most four decimals and no exponent, and no     *)
(* cell spells nan or inf.  The file written is the text of its characters  *)
(* (line terminator "\n", as on Linux).                                     *)
(***************************************************************************)
Str(t) == [k |-> "str", neg |-> FALSE, v |-> 0, t |-> t]
NaNCell == [k |-> "nan", neg |-> FALSE, v |-> 0, t |-> <<>>]
IntCell(v) == [k |-> "int", neg |-> v < 0, v |-> v, t |-> <<>>]
FloatCell(neg, v) == [k |-> "float", neg |-> neg, v |-> v, t |-> <<>>]

TextEvent == <<"E", "v", "e", "n", "t">>
TextName == <<"N", "a", "m", "e">>
TextPen == <<"P", "e", "n">>
TextPenDot == <<"P", "e", "n", ".">>
TextRank == <<"R", "a", "n", "k">>
TextD == <<"D">>
TextVault == <<"V", "a", "u", "l", "t">>
TextUnknown == <<"U", "n", "k", "n", "o", "w", "n">>
OUT_CSV == <<"e", "v", "e", "n", "t", "s", ".", "c", "s", "v">>

\* \w and \b in a str pattern follow Unicode: a word character is a character
\* c with c.isalnum(), or "_".  The texts are over the characters a string of
\* this module can hold: the ASCII characters but U+0000 and the grave accent,
\* U+0080 to U+00FF, and the characters of the Basic Multilingual Plane whose
\* code ends in 80 to FF (U+0180 to U+01FF, U+0280 to U+02FF, ...).
\* [A-Za-z0-9_]
AsciiWordChars == Capitals \cup Smalls \cup {DigitChars[q] : q \in 1..10} \cup {"_"}
\* the other ASCII characters (U+0001 to U+007F): controls, space, punctuation
AsciiNonWord == {"", "", "", "", "", "", "", "", "\t", "\n", "", "\f",
                 "\r", "", "", "", "", "", "", "", "", "", "", "",
                 "", "", "", "", "", "", "", " ", "!", "\"", "#", "$",
                 "%", "&", "'", "(", ")", "*", "+", ",", "-", ".", "/", ":",
                 ";", "<", "=", ">", "?", "@", "[", "\\", "]", "^", "{", "|",
                 "}", "~", ""}

\* the characters beyond ASCII that are not word characters: those c of the
\* texts with not c.isalnum() (Unicode 14.0, the tables of Python 3.11; code
\* points without a character and private ones included)
NonWordChars == {"", "", "", "", "", "", "", "", "", "", "", "", "", "",
                 "", "", "", "", "", "", "", "", "", "", "", "", "", "",
                 "", "", "", "", " ", "¡", "¢", "£", "¤", "¥", "¦", "§", "¨", "©",
                 "«", "¬", "­", "®", "¯", "°", "±", "´", "¶", "·", "¸", "»", "¿", "×",
                 "÷", "˂", "˃", "˄", "˅", "˒", "˓", "˔", "˕", "˖", "˗", "˘", "˙", "˚",
                 "˛", "˜", "˝", "˞", "˟", "˥", "˦", "˧", "˨", "˩", "˪", "˫", "˭", "˯",
                 "˰", "˱", "˲", "˳", "˴", "˵", "˶", "˷", "˸", "˹", "˺", "˻", "˼", "˽",
                 "˾", "˿", "΀", "΁", "΂", "΃", "΄", "΅", "·", "΋", "΍", "΢", "϶", "҂",
                 "҃", "҄", "҅", "҆", "҇", "҈", "҉", "։", "֊", "֋", "֌", "֍", "֎", "֏",
                 "֐", "֑", "֒", "֓", "֔", "֕", "֖", "֗", "֘", "֙", "֚", "֛", "֜", "֝",
                 "֞", "֟", "֠", "֡", "֢", "֣", "֤", "֥", "֦", "֧", "֨", "֩", "֪", "֫",
                 "֬", "֭", "֮", "֯", "ְ", "ֱ", "ֲ", "ֳ", "ִ", "ֵ", "ֶ", "ַ", "ָ", "ֹ",
                 "ֺ", "ֻ", "ּ", "ֽ", "־", "ֿ", "׀", "ׁ", "ׂ", "׃", "ׄ", "ׅ", "׆", "ׇ",
                 "׈", "׉", "׊", "׋", "׌", "׍", "׎", "׏", "׫", "׬", "׭", "׮", "׳", "״",
                 "׵", "׶", "׷", "׸", "׹", "׺", "׻", "׼", "׽", "׾", "׿", "۔", "ۖ", "ۗ",
                 "ۘ", "ۙ", "ۚ", "ۛ", "ۜ", "۝", "۞", "۟", "۠", "ۡ", "ۢ", "ۣ", "ۤ", "ۧ",
                 "ۨ", "۩", "۪", "۫", "۬", "ۭ", "۽", "۾", "ަ", "ާ", "ި", "ީ", "ު", "ޫ",
                 "ެ", "ޭ", "ޮ", "ޯ", "ް", "޲", "޳", "޴", "޵", "޶", "޷", "޸", "޹", "޺",
                 "޻", "޼", "޽", "޾", "޿", "߫", "߬", "߭", "߮", "߯", "߰", "߱", "߲", "߳",
                 "߶", "߷", "߸", "߹", "߻", "߼", "߽", "߾", "߿", "࢈", "࢏", "࢐", "࢑", "࢒",
                 "࢓", "࢔", "࢕", "࢖", "ࢗ", "࢘", "࢙", "࢚", "࢛", "࢜", "࢝", "࢞", "࢟", "࣊",
                 "࣋", "࣌", "࣍", "࣎", "࣏", "࣐", "࣑", "࣒", "࣓", "ࣔ", "ࣕ", "ࣖ", "ࣗ", "ࣘ",
                 "ࣙ", "ࣚ", "ࣛ", "ࣜ", "ࣝ", "ࣞ", "ࣟ", "࣠", "࣡", "࣢", "ࣣ", "ࣤ", "ࣥ", "ࣦ",
                 "ࣧ", "ࣨ", "ࣩ", "࣪", "࣫", "࣬", "࣭", "࣮", "࣯", "ࣰ", "ࣱ", "ࣲ", "ࣳ", "ࣴ",
                 "ࣵ", "ࣶ", "ࣷ", "ࣸ", "ࣹ", "ࣺ", "ࣻ", "ࣼ", "ࣽ", "ࣾ", "ࣿ", "ঁ", "ং", "ঃ",
                 "঄", "঍", "঎", "঑", "঒", "঩", "঱", "঳", "঴", "঵", "঺", "঻", "়", "া",
                 "ি", "ী", "ু", "ূ", "ৃ", "ৄ", "৅", "৆", "ে", "ৈ", "৉", "৊", "ো", "ৌ",
                 "্", "৏", "৐", "৑", "৒", "৓", "৔", "৕", "৖", "ৗ", "৘", "৙", "৚", "৛",
                 "৞", "ৢ", "ৣ", "৤", "৥", "৲", "৳", "৺", "৻", "৽", "৾", "৿", "઀", "ઁ",
                 "ં", "ઃ", "઄", "઎", "઒", "઩", "઱", "઴", "઺", "઻", "઼", "ા", "િ", "ી",
                 "ુ", "ૂ", "ૃ", "ૄ", "ૅ", "૆", "ે", "ૈ", "ૉ", "૊", "ો", "ૌ", "્", "૎",
                 "૏", "૑", "૒", "૓", "૔", "૕", "૖", "૗", "૘", "૙", "૚", "૛", "૜", "૝",
                 "૞", "૟", "ૢ", "ૣ", "૤", "૥", "૰", "૱", "૲", "૳", "૴", "૵", "૶", "૷",
                 "૸", "ૺ", "ૻ", "ૼ", "૽", "૾", "૿", "஀", "஁", "ஂ", "஄", "஋", "஌", "஍",
                 "஑", "஖", "஗", "஘", "஛", "஝", "஠", "஡", "஢", "஥", "஦", "஧", "஫", "஬",
                 "஭", "஺", "஻", "஼", "஽", "ா", "ி", "ீ", "ு", "ூ", "௃", "௄", "௅", "ெ",
                 "ே", "ை", "௉", "ொ", "ோ", "ௌ", "்", "௎", "௏", "௑", "௒", "௓", "௔", "௕",
                 "௖", "ௗ", "௘", "௙", "௚", "௛", "௜", "௝", "௞", "௟", "௠", "௡", "௢", "௣",
                 "௤", "௥", "௳", "௴", "௵", "௶", "௷", "௸", "௹", "௺", "௻", "௼", "௽", "௾",
                 "௿", "ಁ", "ಂ", "ಃ", "಄", "಍", "಑", "಩", "಴", "಺", "಻", "಼", "ಾ", "ಿ",
                 "ೀ", "ು", "ೂ", "ೃ", "ೄ", "೅", "ೆ", "ೇ", "ೈ", "೉", "ೊ", "ೋ", "ೌ", "್",
                 "೎", "೏", "೐", "೑", "೒", "೓", "೔", "ೕ", "ೖ", "೗", "೘", "೙", "೚", "೛",
                 "೜", "೟", "ೢ", "ೣ", "೤", "೥", "೰", "ೳ", "೴", "೵", "೶", "೷", "೸", "೹",
                 "೺", "೻", "೼", "೽", "೾", "೿", "඀", "ඁ", "ං", "ඃ", "඄", "඗", "඘", "඙",
                 "඲", "඼", "඾", "඿", "෇", "෈", "෉", "්", "෋", "෌", "෍", "෎", "ා", "ැ",
                 "ෑ", "ි", "ී", "ු", "෕", "ූ", "෗", "ෘ", "ෙ", "ේ", "ෛ", "ො", "ෝ", "ෞ",
                 "ෟ", "෠", "෡", "෢", "෣", "෤", "෥", "෰", "෱", "ෲ", "ෳ", "෴", "෵", "෶",
                 "෷", "෸", "෹", "෺", "෻", "෼", "෽", "෾", "෿", "຀", "຃", "຅", "຋", "຤",
                 "຦", "ັ", "ິ", "ີ", "ຶ", "ື", "ຸ", "ູ", "຺", "ົ", "ຼ", "຾", "຿", "໅",
                 "໇", "່", "້", "໊", "໋", "໌", "ໍ", "໎", "໏", "໚", "໛", "໠", "໡", "໢",
                 "໣", "໤", "໥", "໦", "໧", "໨", "໩", "໪", "໫", "໬", "໭", "໮", "໯", "໰",
                 "໱", "໲", "໳", "໴", "໵", "໶", "໷", "໸", "໹", "໺", "໻", "໼", "໽", "໾",
                 "໿", "ྀ", "ཱྀ", "ྂ", "ྃ", "྄", "྅", "྆", "྇", "ྍ", "ྎ", "ྏ", "ྐ", "ྑ",
                 "ྒ", "ྒྷ", "ྔ", "ྕ", "ྖ", "ྗ", "྘", "ྙ", "ྚ", "ྛ", "ྜ", "ྜྷ", "ྞ", "ྟ",
                 "ྠ", "ྡ", "ྡྷ", "ྣ", "ྤ", "ྥ", "ྦ", "ྦྷ", "ྨ", "ྩ", "ྪ", "ྫ", "ྫྷ", "ྭ",
                 "ྮ", "ྯ", "ྰ", "ྱ", "ྲ", "ླ", "ྴ", "ྵ", "ྶ", "ྷ", "ྸ", "ྐྵ", "ྺ", "ྻ",
                 "ྼ", "྽", "྾", "྿", "࿀", "࿁", "࿂", "࿃", "࿄", "࿅", "࿆", "࿇", "࿈", "࿉",
                 "࿊", "࿋", "࿌", "࿍", "࿎", "࿏", "࿐", "࿑", "࿒", "࿓", "࿔", "࿕", "࿖", "࿗",
                 "࿘", "࿙", "࿚", "࿛", "࿜", "࿝", "࿞", "࿟", "࿠", "࿡", "࿢", "࿣", "࿤", "࿥",
                 "࿦", "࿧", "࿨", "࿩", "࿪", "࿫", "࿬", "࿭", "࿮", "࿯", "࿰", "࿱", "࿲", "࿳",
                 "࿴", "࿵", "࿶", "࿷", "࿸", "࿹", "࿺", "࿻", "࿼", "࿽", "࿾", "࿿", "ႂ", "ႃ",
                 "ႄ", "ႅ", "ႆ", "ႇ", "ႈ", "ႉ", "ႊ", "ႋ", "ႌ", "ႍ", "ႏ", "ႚ", "ႛ", "ႜ",
                 "ႝ", "႞", "႟", "჆", "჈", "჉", "჊", "჋", "჌", "჎", "჏", "჻", "኉", "኎",
                 "኏", "኱", "኶", "኷", "኿", "዁", "዆", "዇", "዗", "᎐", "᎑", "᎒", "᎓", "᎔",
                 "᎕", "᎖", "᎗", "᎘", "᎙", "᎚", "᎛", "᎜", "᎝", "᎞", "᎟", "᏶", "᏷", "᏾",
                 "᏿", " ", "᚛", "᚜", "᚝", "᚞", "᚟", "᛫", "᛬", "᛭", "᛹", "᛺", "᛻", "᛼",
                 "᛽", "᛾", "᛿", "឴", "឵", "ា", "ិ", "ី", "ឹ", "ឺ", "ុ", "ូ", "ួ", "ើ",
                 "ឿ", "ៀ", "េ", "ែ", "ៃ", "ោ", "ៅ", "ំ", "ះ", "ៈ", "៉", "៊", "់", "៌",
                 "៍", "៎", "៏", "័", "៑", "្", "៓", "។", "៕", "៖", "៘", "៙", "៚", "៛",
                 "៝", "៞", "៟", "៪", "៫", "៬", "៭", "៮", "៯", "៺", "៻", "៼", "៽", "៾",
                 "៿", "ᢅ", "ᢆ", "ᢩ", "᢫", "᢬", "᢭", "᢮", "᢯", "᣶", "᣷", "᣸", "᣹", "᣺",
                 "᣻", "᣼", "᣽", "᣾", "᣿", "᦬", "᦭", "᦮", "᦯", "᧊", "᧋", "᧌", "᧍", "᧎",
                 "᧏", "᧛", "᧜", "᧝", "᧞", "᧟", "᧠", "᧡", "᧢", "᧣", "᧤", "᧥", "᧦", "᧧",
                 "᧨", "᧩", "᧪", "᧫", "᧬", "᧭", "᧮", "᧯", "᧰", "᧱", "᧲", "᧳", "᧴", "᧵",
                 "᧶", "᧷", "᧸", "᧹", "᧺", "᧻", "᧼", "᧽", "᧾", "᧿", "᪊", "᪋", "᪌", "᪍",
                 "᪎", "᪏", "᪚", "᪛", "᪜", "᪝", "᪞", "᪟", "᪠", "᪡", "᪢", "᪣", "᪤", "᪥",
                 "᪦", "᪨", "᪩", "᪪", "᪫", "᪬", "᪭", "᪮", "᪯", "᪰", "᪱", "᪲", "᪳", "᪴",
                 "᪵", "᪶", "᪷", "᪸", "᪹", "᪺", "᪻", "᪼", "᪽", "᪾", "ᪿ", "ᫀ", "᫁", "᫂",
                 "᫃", "᫄", "᫅", "᫆", "᫇", "᫈", "᫉", "᫊", "᫋", "ᫌ", "ᫍ", "ᫎ", "᫏", "᫐",
                 "᫑", "᫒", "᫓", "᫔", "᫕", "᫖", "᫗", "᫘", "᫙", "᫚", "᫛", "᫜", "᫝", "᫞",
                 "᫟", "᫠", "᫡", "᫢", "᫣", "᫤", "᫥", "᫦", "᫧", "᫨", "᫩", "᫪", "᫫", "᫬",
                 "᫭", "᫮", "᫯", "᫰", "᫱", "᫲", "᫳", "᫴", "᫵", "᫶", "᫷", "᫸", "᫹", "᫺",
                 "᫻", "᫼", "᫽", "᫾", "᫿", "ᮀ", "ᮁ", "ᮂ", "ᮡ", "ᮢ", "ᮣ", "ᮤ", "ᮥ", "ᮦ",
                 "ᮧ", "ᮨ", "ᮩ", "᮪", "᮫", "ᮬ", "ᮭ", "᯦", "ᯧ", "ᯨ", "ᯩ", "ᯪ", "ᯫ", "ᯬ",
                 "ᯭ", "ᯮ", "ᯯ", "ᯰ", "ᯱ", "᯲", "᯳", "᯴", "᯵", "᯶", "᯷", "᯸", "᯹", "᯺",
                 "᯻", "᯼", "᯽", "᯾", "᯿", "Ᲊ", "ᲊ", "᲋", "᲌", "᲍", "᲎", "᲏", "᲻", "᲼",
                 "᳀", "᳁", "᳂", "᳃", "᳄", "᳅", "᳆", "᳇", "᳈", "᳉", "᳊", "᳋", "᳌", "᳍",
                 "᳎", "᳏", "᳐", "᳑", "᳒", "᳓", "᳔", "᳕", "᳖", "᳗", "᳘", "᳙", "᳚", "᳛",
                 "᳜", "᳝", "᳞", "᳟", "᳠", "᳡", "᳢", "᳣", "᳤", "᳥", "᳦", "᳧", "᳨", "᳭",
                 "᳴", "᳷", "᳸", "᳹", "᳻", "᳼", "᳽", "᳾", "᳿", "᷀", "᷁", "᷂", "᷃", "᷄",
                 "᷅", "᷆", "᷇", "᷈", "᷉", "᷊", "᷋", "᷌", "᷍", "᷎", "᷏", "᷐", "᷑", "᷒",
                 "ᷓ", "ᷔ", "ᷕ", "ᷖ", "ᷗ", "ᷘ", "ᷙ", "ᷚ", "ᷛ", "ᷜ", "ᷝ", "ᷞ", "ᷟ", "ᷠ",
                 "ᷡ", "ᷢ", "ᷣ", "ᷤ", "ᷥ", "ᷦ", "ᷧ", "ᷨ", "ᷩ", "ᷪ", "ᷫ", "ᷬ", "ᷭ", "ᷮ",
                 "ᷯ", "ᷰ", "ᷱ", "ᷲ", "ᷳ", "ᷴ", "᷵", "᷶", "᷷", "᷸", "᷹", "᷺", "᷻", "᷼",
                 "᷽", "᷾", "᷿", "᾵", "᾽", "᾿", "῀", "῁", "῅", "῍", "῎", "῏", "῔", "῕",
                 "῜", "῝", "῞", "῟", "῭", "΅", "`", "῰", "῱", "῵", "´", "῾", "῿", "₊",
                 "₋", "₌", "₍", "₎", "₏", "₝", "₞", "₟", "₠", "₡", "₢", "₣", "₤", "₥",
                 "₦", "₧", "₨", "₩", "₪", "₫", "€", "₭", "₮", "₯", "₰", "₱", "₲", "₳",
                 "₴", "₵", "₶", "₷", "₸", "₹", "₺", "₻", "₼", "₽", "₾", "₿", "⃀", "⃁",
                 "⃂", "⃃", "⃄", "⃅", "⃆", "⃇", "⃈", "⃉", "⃊", "⃋", "⃌", "⃍", "⃎", "⃏",
                 "⃐", "⃑", "⃒", "⃓", "⃔", "⃕", "⃖", "⃗", "⃘", "⃙", "⃚", "⃛", "⃜", "⃝",
                 "⃞", "⃟", "⃠", "⃡", "⃢", "⃣", "⃤", "⃥", "⃦", "⃧", "⃨", "⃩", "⃪", "⃫",
                 "⃬", "⃭", "⃮", "⃯", "⃰", "⃱", "⃲", "⃳", "⃴", "⃵", "⃶", "⃷", "⃸", "⃹",
                 "⃺", "⃻", "⃼", "⃽", "⃾", "⃿", "↊", "↋", "↌", "↍", "↎", "↏", "←", "↑",
                 "→", "↓", "↔", "↕", "↖", "↗", "↘", "↙", "↚", "↛", "↜", "↝", "↞", "↟",
                 "↠", "↡", "↢", "↣", "↤", "↥", "↦", "↧", "↨", "↩", "↪", "↫", "↬", "↭",
                 "↮", "↯", "↰", "↱", "↲", "↳", "↴", "↵", "↶", "↷", "↸", "↹", "↺", "↻",
                 "↼", "↽", "↾", "↿", "⇀", "⇁", "⇂", "⇃", "⇄", "⇅", "⇆", "⇇", "⇈", "⇉",
                 "⇊", "⇋", "⇌", "⇍", "⇎", "⇏", "⇐", "⇑", "⇒", "⇓", "⇔", "⇕", "⇖", "⇗",
                 "⇘", "⇙", "⇚", "⇛", "⇜", "⇝", "⇞", "⇟", "⇠", "⇡", "⇢", "⇣", "⇤", "⇥",
                 "⇦", "⇧", "⇨", "⇩", "⇪", "⇫", "⇬", "⇭", "⇮", "⇯", "⇰", "⇱", "⇲", "⇳",
                 "⇴", "⇵", "⇶", "⇷", "⇸", "⇹", "⇺", "⇻", "⇼", "⇽", "⇾", "⇿", "⊀", "⊁",
                 "⊂", "⊃", "⊄", "⊅", "⊆", "⊇", "⊈", "⊉", "⊊", "⊋", "⊌", "⊍", "⊎", "⊏",
                 "⊐", "⊑", "⊒", "⊓", "⊔", "⊕", "⊖", "⊗", "⊘", "⊙", "⊚", "⊛", "⊜", "⊝",
                 "⊞", "⊟", "⊠", "⊡", "⊢", "⊣", "⊤", "⊥", "⊦", "⊧", "⊨", "⊩", "⊪", "⊫",
                 "⊬", "⊭", "⊮", "⊯", "⊰", "⊱", "⊲", "⊳", "⊴", "⊵", "⊶", "⊷", "⊸", "⊹",
                 "⊺", "⊻", "⊼", "⊽", "⊾", "⊿", "⋀", "⋁", "⋂", "⋃", "⋄", "⋅", "⋆", "⋇",
                 "⋈", "⋉", "⋊", "⋋", "⋌", "⋍", "⋎", "⋏", "⋐", "⋑", "⋒", "⋓", "⋔", "⋕",
                 "⋖", "⋗", "⋘", "⋙", "⋚", "⋛", "⋜", "⋝", "⋞", "⋟", "⋠", "⋡", "⋢", "⋣",
                 "⋤", "⋥", "⋦", "⋧", "⋨", "⋩", "⋪", "⋫", "⋬", "⋭", "⋮", "⋯", "⋰", "⋱",
                 "⋲", "⋳", "⋴", "⋵", "⋶", "⋷", "⋸", "⋹", "⋺", "⋻", "⋼", "⋽", "⋾", "⋿",
                 "⎀", "⎁", "⎂", "⎃", "⎄", "⎅", "⎆", "⎇", "⎈", "⎉", "⎊", "⎋", "⎌", "⎍",
                 "⎎", "⎏", "⎐", "⎑", "⎒", "⎓", "⎔", "⎕", "⎖", "⎗", "⎘", "⎙", "⎚", "⎛",
                 "⎜", "⎝", "⎞", "⎟", "⎠", "⎡", "⎢", "⎣", "⎤", "⎥", "⎦", "⎧", "⎨", "⎩",
                 "⎪", "⎫", "⎬", "⎭", "⎮", "⎯", "⎰", "⎱", "⎲", "⎳", "⎴", "⎵", "⎶", "⎷",
                 "⎸", "⎹", "⎺", "⎻", "⎼", "⎽", "⎾", "⎿", "⏀", "⏁", "⏂", "⏃", "⏄", "⏅",
                 "⏆", "⏇", "⏈", "⏉", "⏊", "⏋", "⏌", "⏍", "⏎", "⏏", "⏐", "⏑", "⏒", "⏓",
                 "⏔", "⏕", "⏖", "⏗", "⏘", "⏙", "⏚", "⏛", "⏜", "⏝", "⏞", "⏟", "⏠", "⏡",
                 "⏢", "⏣", "⏤", "⏥", "⏦", "⏧", "⏨", "⏩", "⏪", "⏫", "⏬", "⏭", "⏮", "⏯",
                 "⏰", "⏱", "⏲", "⏳", "⏴", "⏵", "⏶", "⏷", "⏸", "⏹", "⏺", "⏻", "⏼", "⏽",
                 "⏾", "⏿", "⒜", "⒝", "⒞", "⒟", "⒠", "⒡", "⒢", "⒣", "⒤", "⒥", "⒦", "⒧",
                 "⒨", "⒩", "⒪", "⒫", "⒬", "⒭", "⒮", "⒯", "⒰", "⒱", "⒲", "⒳", "⒴", "⒵",
                 "Ⓐ", "Ⓑ", "Ⓒ", "Ⓓ", "Ⓔ", "Ⓕ", "Ⓖ", "Ⓗ", "Ⓘ", "Ⓙ", "Ⓚ", "Ⓛ", "Ⓜ", "Ⓝ",
                 "Ⓞ", "Ⓟ", "Ⓠ", "Ⓡ", "Ⓢ", "Ⓣ", "Ⓤ", "Ⓥ", "Ⓦ", "Ⓧ", "Ⓨ", "Ⓩ", "ⓐ", "ⓑ",
                 "ⓒ", "ⓓ", "ⓔ", "ⓕ", "ⓖ", "ⓗ", "ⓘ", "ⓙ", "ⓚ", "ⓛ", "ⓜ", "ⓝ", "ⓞ", "ⓟ",
                 "ⓠ", "ⓡ", "ⓢ", "ⓣ", "ⓤ", "ⓥ", "ⓦ", "ⓧ", "ⓨ", "ⓩ", "▀", "▁", "▂", "▃",
                 "▄", "▅", "▆", "▇", "█", "▉", "▊", "▋", "▌", "▍", "▎", "▏", "▐", "░",
                 "▒", "▓", "▔", "▕", "▖", "▗", "▘", "▙", "▚", "▛", "▜", "▝", "▞", "▟",
                 "■", "□", "▢", "▣", "▤", "▥", "▦", "▧", "▨", "▩", "▪", "▫", "▬", "▭",
                 "▮", "▯", "▰", "▱", "▲", "△", "▴", "▵", "▶", "▷", "▸", "▹", "►", "▻",
                 "▼", "▽", "▾", "▿", "◀", "◁", "◂", "◃", "◄", "◅", "◆", "◇", "◈", "◉",
                 "◊", "○", "◌", "◍", "◎", "●", "◐", "◑", "◒", "◓", "◔", "◕", "◖", "◗",
                 "◘", "◙", "◚", "◛", "◜", "◝", "◞", "◟", "◠", "◡", "◢", "◣", "◤", "◥",
                 "◦", "◧", "◨", "◩", "◪", "◫", "◬", "◭", "◮", "◯", "◰", "◱", "◲", "◳",
                 "◴", "◵", "◶", "◷", "◸", "◹", "◺", "◻", "◼", "◽", "◾", "◿", "⚀", "⚁",
                 "⚂", "⚃", "⚄", "⚅", "⚆", "⚇", "⚈", "⚉", "⚊", "⚋", "⚌", "⚍", "⚎", "⚏",
                 "⚐", "⚑", "⚒", "⚓", "⚔", "⚕", "⚖", "⚗", "⚘", "⚙", "⚚", "⚛", "⚜", "⚝",
                 "⚞", "⚟", "⚠", "⚡", "⚢", "⚣", "⚤", "⚥", "⚦", "⚧", "⚨", "⚩", "⚪", "⚫",
                 "⚬", "⚭", "⚮", "⚯", "⚰", "⚱", "⚲", "⚳", "⚴", "⚵", "⚶", "⚷", "⚸", "⚹",
                 "⚺", "⚻", "⚼", "⚽", "⚾", "⚿", "⛀", "⛁", "⛂", "⛃", "⛄", "⛅", "⛆", "⛇",
                 "⛈", "⛉", "⛊", "⛋", "⛌", "⛍", "⛎", "⛏", "⛐", "⛑", "⛒", "⛓", "⛔", "⛕",
                 "⛖", "⛗", "⛘", "⛙", "⛚", "⛛", "⛜", "⛝", "⛞", "⛟", "⛠", "⛡", "⛢", "⛣",
                 "⛤", "⛥", "⛦", "⛧", "⛨", "⛩", "⛪", "⛫", "⛬", "⛭", "⛮", "⛯", "⛰", "⛱",
                 "⛲", "⛳", "⛴", "⛵", "⛶", "⛷", "⛸", "⛹", "⛺", "⛻", "⛼", "⛽", "⛾", "⛿",
                 "➔", "➕", "➖", "➗", "➘", "➙", "➚", "➛", "➜", "➝", "➞", "➟", "➠", "➡",
                 "➢", "➣", "➤", "➥", "➦", "➧", "➨", "➩", "➪", "➫", "➬", "➭", "➮", "➯",
                 "➰", "➱", "➲", "➳", "➴", "➵", "➶", "➷", "➸", "➹", "➺", "➻", "➼", "➽",
                 "➾", "➿", "⟀", "⟁", "⟂", "⟃", "⟄", "⟅", "⟆", "⟇", "⟈", "⟉", "⟊", "⟋",
                 "⟌", "⟍", "⟎", "⟏", "⟐", "⟑", "⟒", "⟓", "⟔", "⟕", "⟖", "⟗", "⟘", "⟙",
                 "⟚", "⟛", "⟜", "⟝", "⟞", "⟟", "⟠", "⟡", "⟢", "⟣", "⟤", "⟥", "⟦", "⟧",
                 "⟨", "⟩", "⟪", "⟫", "⟬", "⟭", "⟮", "⟯", "⟰", "⟱", "⟲", "⟳", "⟴", "⟵",
                 "⟶", "⟷", "⟸", "⟹", "⟺", "⟻", "⟼", "⟽", "⟾", "⟿", "⢀", "⢁", "⢂", "⢃",
                 "⢄", "⢅", "⢆", "⢇", "⢈", "⢉", "⢊", "⢋", "⢌", "⢍", "⢎", "⢏", "⢐", "⢑",
                 "⢒", "⢓", "⢔", "⢕", "⢖", "⢗", "⢘", "⢙", "⢚", "⢛", "⢜", "⢝", "⢞", "⢟",
                 "⢠", "⢡", "⢢", "⢣", "⢤", "⢥", "⢦", "⢧", "⢨", "⢩", "⢪", "⢫", "⢬", "⢭",
                 "⢮", "⢯", "⢰", "⢱", "⢲", "⢳", "⢴", "⢵", "⢶", "⢷", "⢸", "⢹", "⢺", "⢻",
                 "⢼", "⢽", "⢾", "⢿", "⣀", "⣁", "⣂", "⣃", "⣄", "⣅", "⣆", "⣇", "⣈", "⣉",
                 "⣊", "⣋", "⣌", "⣍", "⣎", "⣏", "⣐", "⣑", "⣒", "⣓", "⣔", "⣕", "⣖", "⣗",
                 "⣘", "⣙", "⣚", "⣛", "⣜", "⣝", "⣞", "⣟", "⣠", "⣡", "⣢", "⣣", "⣤", "⣥",
                 "⣦", "⣧", "⣨", "⣩", "⣪", "⣫", "⣬", "⣭", "⣮", "⣯", "⣰", "⣱", "⣲", "⣳",
                 "⣴", "⣵", "⣶", "⣷", "⣸", "⣹", "⣺", "⣻", "⣼", "⣽", "⣾", "⣿", "⦀", "⦁",
                 "⦂", "⦃", "⦄", "⦅", "⦆", "⦇", "⦈", "⦉", "⦊", "⦋", "⦌", "⦍", "⦎", "⦏",
                 "⦐", "⦑", "⦒", "⦓", "⦔", "⦕", "⦖", "⦗", "⦘", "⦙", "⦚", "⦛", "⦜", "⦝",
                 "⦞", "⦟", "⦠", "⦡", "⦢", "⦣", "⦤", "⦥", "⦦", "⦧", "⦨", "⦩", "⦪", "⦫",
                 "⦬", "⦭", "⦮", "⦯", "⦰", "⦱", "⦲", "⦳", "⦴", "⦵", "⦶", "⦷", "⦸", "⦹",
                 "⦺", "⦻", "⦼", "⦽", "⦾", "⦿", "⧀", "⧁", "⧂", "⧃", "⧄", "⧅", "⧆", "⧇",
                 "⧈", "⧉", "⧊", "⧋", "⧌", "⧍", "⧎", "⧏", "⧐", "⧑", "⧒", "⧓", "⧔", "⧕",
                 "⧖", "⧗", "⧘", "⧙", "⧚", "⧛", "⧜", "⧝", "⧞", "⧟", "⧠", "⧡", "⧢", "⧣",
                 "⧤", "⧥", "⧦", "⧧", "⧨", "⧩", "⧪", "⧫", "⧬", "⧭", "⧮", "⧯", "⧰", "⧱",
                 "⧲", "⧳", "⧴", "⧵", "⧶", "⧷", "⧸", "⧹", "⧺", "⧻", "⧼", "⧽", "⧾", "⧿",
                 "⪀", "⪁", "⪂", "⪃", "⪄", "⪅", "⪆", "⪇", "⪈", "⪉", "⪊", "⪋", "⪌", "⪍",
                 "⪎", "⪏", "⪐", "⪑", "⪒", "⪓", "⪔", "⪕", "⪖", "⪗", "⪘", "⪙", "⪚", "⪛",
                 "⪜", "⪝", "⪞", "⪟", "⪠", "⪡", "⪢", "⪣", "⪤", "⪥", "⪦", "⪧", "⪨", "⪩",
                 "⪪", "⪫", "⪬", "⪭", "⪮", "⪯", "⪰", "⪱", "⪲", "⪳", "⪴", "⪵", "⪶", "⪷",
                 "⪸", "⪹", "⪺", "⪻", "⪼", "⪽", "⪾", "⪿", "⫀", "⫁", "⫂", "⫃", "⫄", "⫅",
                 "⫆", "⫇", "⫈", "⫉", "⫊", "⫋", "⫌", "⫍", "⫎", "⫏", "⫐", "⫑", "⫒", "⫓",
                 "⫔", "⫕", "⫖", "⫗", "⫘", "⫙", "⫚", "⫛", "⫝̸", "⫝", "⫞", "⫟", "⫠", "⫡",
                 "⫢", "⫣", "⫤", "⫥", "⫦", "⫧", "⫨", "⫩", "⫪", "⫫", "⫬", "⫭", "⫮", "⫯",
                 "⫰", "⫱", "⫲", "⫳", "⫴", "⫵", "⫶", "⫷", "⫸", "⫹", "⫺", "⫻", "⫼", "⫽",
                 "⫾", "⫿", "⮀", "⮁", "⮂", "⮃", "⮄", "⮅", "⮆", "⮇", "⮈", "⮉", "⮊", "⮋",
                 "⮌", "⮍", "⮎", "⮏", "⮐", "⮑", "⮒", "⮓", "⮔", "⮕", "⮖", "⮗", "⮘", "⮙",
                 "⮚", "⮛", "⮜", "⮝", "⮞", "⮟", "⮠", "⮡", "⮢", "⮣", "⮤", "⮥", "⮦", "⮧",
                 "⮨", "⮩", "⮪", "⮫", "⮬", "⮭", "⮮", "⮯", "⮰", "⮱", "⮲", "⮳", "⮴", "⮵",
                 "⮶", "⮷", "⮸", "⮹", "⮺", "⮻", "⮼", "⮽", "⮾", "⮿", "⯀", "⯁", "⯂", "⯃",
                 "⯄", "⯅", "⯆", "⯇", "⯈", "⯉", "⯊", "⯋", "⯌", "⯍", "⯎", "⯏", "⯐", "⯑",
                 "⯒", "⯓", "⯔", "⯕", "⯖", "⯗", "⯘", "⯙", "⯚", "⯛", "⯜", "⯝", "⯞", "⯟",
                 "⯠", "⯡", "⯢", "⯣", "⯤", "⯥", "⯦", "⯧", "⯨", "⯩", "⯪", "⯫", "⯬", "⯭",
                 "⯮", "⯯", "⯰", "⯱", "⯲", "⯳", "⯴", "⯵", "⯶", "⯷", "⯸", "⯹", "⯺", "⯻",
                 "⯼", "⯽", "⯾", "⯿", "⳥", "⳦", "⳧", "⳨", "⳩", "⳪", "⳯", "⳰", "⳱", "⳴",
                 "⳵", "⳶", "⳷", "⳸", "⳹", "⳺", "⳻", "⳼", "⳾", "⳿", "⶗", "⶘", "⶙", "⶚",
                 "⶛", "⶜", "⶝", "⶞", "⶟", "⶧", "⶯", "⶷", "⶿", "⷇", "⷏", "⷗", "⷟", "ⷠ",
                 "ⷡ", "ⷢ", "ⷣ", "ⷤ", "ⷥ", "ⷦ", "ⷧ", "ⷨ", "ⷩ", "ⷪ", "ⷫ", "ⷬ", "ⷭ", "ⷮ",
                 "ⷯ", "ⷰ", "ⷱ", "ⷲ", "ⷳ", "ⷴ", "ⷵ", "ⷶ", "ⷷ", "ⷸ", "ⷹ", "ⷺ", "ⷻ", "ⷼ",
                 "ⷽ", "ⷾ", "ⷿ", "⺀", "⺁", "⺂", "⺃", "⺄", "⺅", "⺆", "⺇", "⺈", "⺉", "⺊",
                 "⺋", "⺌", "⺍", "⺎", "⺏", "⺐", "⺑", "⺒", "⺓", "⺔", "⺕", "⺖", "⺗", "⺘",
                 "⺙", "⺚", "⺛", "⺜", "⺝", "⺞", "⺟", "⺠", "⺡", "⺢", "⺣", "⺤", "⺥", "⺦",
                 "⺧", "⺨", "⺩", "⺪", "⺫", "⺬", "⺭", "⺮", "⺯", "⺰", "⺱", "⺲", "⺳", "⺴",
                 "⺵", "⺶", "⺷", "⺸", "⺹", "⺺", "⺻", "⺼", "⺽", "⺾", "⺿", "⻀", "⻁", "⻂",
                 "⻃", "⻄", "⻅", "⻆", "⻇", "⻈", "⻉", "⻊", "⻋", "⻌", "⻍", "⻎", "⻏", "⻐",
                 "⻑", "⻒", "⻓", "⻔", "⻕", "⻖", "⻗", "⻘", "⻙", "⻚", "⻛", "⻜", "⻝", "⻞",
                 "⻟", "⻠", "⻡", "⻢", "⻣", "⻤", "⻥", "⻦", "⻧", "⻨", "⻩", "⻪", "⻫", "⻬",
                 "⻭", "⻮", "⻯", "⻰", "⻱", "⻲", "⻳", "⻴", "⻵", "⻶", "⻷", "⻸", "⻹", "⻺",
                 "⻻", "⻼", "⻽", "⻾", "⻿", "⾀", "⾁", "⾂", "⾃", "⾄", "⾅", "⾆", "⾇", "⾈",
                 "⾉", "⾊", "⾋", "⾌", "⾍", "⾎", "⾏", "⾐", "⾑", "⾒", "⾓", "⾔", "⾕", "⾖",
                 "⾗", "⾘", "⾙", "⾚", "⾛", "⾜", "⾝", "⾞", "⾟", "⾠", "⾡", "⾢", "⾣", "⾤",
                 "⾥", "⾦", "⾧", "⾨", "⾩", "⾪", "⾫", "⾬", "⾭", "⾮", "⾯", "⾰", "⾱", "⾲",
                 "⾳", "⾴", "⾵", "⾶", "⾷", "⾸", "⾹", "⾺", "⾻", "⾼", "⾽", "⾾", "⾿", "⿀",
                 "⿁", "⿂", "⿃", "⿄", "⿅", "⿆", "⿇", "⿈", "⿉", "⿊", "⿋", "⿌", "⿍", "⿎",
                 "⿏", "⿐", "⿑", "⿒", "⿓", "⿔", "⿕", "⿖", "⿗", "⿘", "⿙", "⿚", "⿛", "⿜",
                 "⿝", "⿞", "⿟", "⿠", "⿡", "⿢", "⿣", "⿤", "⿥", "⿦", "⿧", "⿨", "⿩", "⿪",
                 "⿫", "⿬", "⿭", "⿮", "⿯", "⿰", "⿱", "⿲", "⿳", "⿴", "⿵", "⿶", "⿷", "⿸",
                 "⿹", "⿺", "⿻", "⿼", "⿽", "⿾", "⿿", "゗", "゘", "゙", "゚", "゛", "゜", "゠",
                 "・", "㆏", "㆐", "㆑", "㆖", "㆗", "㆘", "㆙", "㆚", "㆛", "㆜", "㆝", "㆞", "㆟",
                 "㇀", "㇁", "㇂", "㇃", "㇄", "㇅", "㇆", "㇇", "㇈", "㇉", "㇊", "㇋", "㇌", "㇍",
                 "㇎", "㇏", "㇐", "㇑", "㇒", "㇓", "㇔", "㇕", "㇖", "㇗", "㇘", "㇙", "㇚", "㇛",
                 "㇜", "㇝", "㇞", "㇟", "㇠", "㇡", "㇢", "㇣", "㇤", "㇥", "㇦", "㇧", "㇨", "㇩",
                 "㇪", "㇫", "㇬", "㇭", "㇮", "㇯", "㊊", "㊋", "㊌", "㊍", "㊎", "㊏", "㊐", "㊑",
                 "㊒", "㊓", "㊔", "㊕", "㊖", "㊗", "㊘", "㊙", "㊚", "㊛", "㊜", "㊝", "㊞", "㊟",
                 "㊠", "㊡", "㊢", "㊣", "㊤", "㊥", "㊦", "㊧", "㊨", "㊩", "㊪", "㊫", "㊬", "㊭",
                 "㊮", "㊯", "㊰", "㋀", "㋁", "㋂", "㋃", "㋄", "㋅", "㋆", "㋇", "㋈", "㋉", "㋊",
                 "㋋", "㋌", "㋍", "㋎", "㋏", "㋐", "㋑", "㋒", "㋓", "㋔", "㋕", "㋖", "㋗", "㋘",
                 "㋙", "㋚", "㋛", "㋜", "㋝", "㋞", "㋟", "㋠", "㋡", "㋢", "㋣", "㋤", "㋥", "㋦",
                 "㋧", "㋨", "㋩", "㋪", "㋫", "㋬", "㋭", "㋮", "㋯", "㋰", "㋱", "㋲", "㋳", "㋴",
                 "㋵", "㋶", "㋷", "㋸", "㋹", "㋺", "㋻", "㋼", "㋽", "㋾", "㋿", "㎀", "㎁", "㎂",
                 "㎃", "㎄", "㎅", "㎆", "㎇", "㎈", "㎉", "㎊", "㎋", "㎌", "㎍", "㎎", "㎏", "㎐",
                 "㎑", "㎒", "㎓", "㎔", "㎕", "㎖", "㎗", "㎘", "㎙", "㎚", "㎛", "㎜", "㎝", "㎞",
                 "㎟", "㎠", "㎡", "㎢", "㎣", "㎤", "㎥", "㎦", "㎧", "㎨", "㎩", "㎪", "㎫", "㎬",
                 "㎭", "㎮", "㎯", "㎰", "㎱", "㎲", "㎳", "㎴", "㎵", "㎶", "㎷", "㎸", "㎹", "㎺",
                 "㎻", "㎼", "㎽", "㎾", "㎿", "㏀", "㏁", "㏂", "㏃", "㏄", "㏅", "㏆", "㏇", "㏈",
                 "㏉", "㏊", "㏋", "㏌", "㏍", "㏎", "㏏", "㏐", "㏑", "㏒", "㏓", "㏔", "㏕", "㏖",
                 "㏗", "㏘", "㏙", "㏚", "㏛", "㏜", "㏝", "㏞", "㏟", "㏠", "㏡", "㏢", "㏣", "㏤",
                 "㏥", "㏦", "㏧", "㏨", "㏩", "㏪", "㏫", "㏬", "㏭", "㏮", "㏯", "㏰", "㏱", "㏲",
                 "㏳", "㏴", "㏵", "㏶", "㏷", "㏸", "㏹", "㏺", "㏻", "㏼", "㏽", "㏾", "㏿", "䷀",
                 "䷁", "䷂", "䷃", "䷄", "䷅", "䷆", "䷇", "䷈", "䷉", "䷊", "䷋", "䷌", "䷍", "䷎",
                 "䷏", "䷐", "䷑", "䷒", "䷓", "䷔", "䷕", "䷖", "䷗", "䷘", "䷙", "䷚", "䷛", "䷜",
                 "䷝", "䷞", "䷟", "䷠", "䷡", "䷢", "䷣", "䷤", "䷥", "䷦", "䷧", "䷨", "䷩", "䷪",
                 "䷫", "䷬", "䷭", "䷮", "䷯", "䷰", "䷱", "䷲", "䷳", "䷴", "䷵", "䷶", "䷷", "䷸",
                 "䷹", "䷺", "䷻", "䷼", "䷽", "䷾", "䷿", "꒍", "꒎", "꒏", "꒐", "꒑", "꒒", "꒓",
                 "꒔", "꒕", "꒖", "꒗", "꒘", "꒙", "꒚", "꒛", "꒜", "꒝", "꒞", "꒟", "꒠", "꒡",
                 "꒢", "꒣", "꒤", "꒥", "꒦", "꒧", "꒨", "꒩", "꒪", "꒫", "꒬", "꒭", "꒮", "꒯",
                 "꒰", "꒱", "꒲", "꒳", "꒴", "꒵", "꒶", "꒷", "꒸", "꒹", "꒺", "꒻", "꒼", "꒽",
                 "꒾", "꒿", "꓀", "꓁", "꓂", "꓃", "꓄", "꓅", "꓆", "꓇", "꓈", "꓉", "꓊", "꓋",
                 "꓌", "꓍", "꓎", "꓏", "꓾", "꓿", "ꚞ", "ꚟ", "꛰", "꛱", "꛲", "꛳", "꛴", "꛵",
                 "꛶", "꛷", "꛸", "꛹", "꛺", "꛻", "꛼", "꛽", "꛾", "꛿", "꞉", "꞊", "Ɤ", "Ꟍ",
                 "ꟍ", "꟎", "꟏", "꟒", "꟔", "Ꟛ", "ꟛ", "Ƛ", "꟝", "꟞", "꟟", "꟠", "꟡", "꟢",
                 "꟣", "꟤", "꟥", "꟦", "꟧", "꟨", "꟩", "꟪", "꟫", "꟬", "꟭", "꟮", "꟯", "꟰",
                 "꟱", "ꢀ", "ꢁ", "ꢴ", "ꢵ", "ꢶ", "ꢷ", "ꢸ", "ꢹ", "ꢺ", "ꢻ", "ꢼ", "ꢽ", "ꢾ",
                 "ꢿ", "ꣀ", "ꣁ", "ꣂ", "ꣃ", "꣄", "ꣅ", "꣆", "꣇", "꣈", "꣉", "꣊", "꣋", "꣌",
                 "꣍", "꣎", "꣏", "꣚", "꣛", "꣜", "꣝", "꣞", "꣟", "꣠", "꣡", "꣢", "꣣", "꣤",
                 "꣥", "꣦", "꣧", "꣨", "꣩", "꣪", "꣫", "꣬", "꣭", "꣮", "꣯", "꣰", "꣱", "꣸",
                 "꣹", "꣺", "꣼", "ꣿ", "ꦀ", "ꦁ", "ꦂ", "ꦃ", "꦳", "ꦴ", "ꦵ", "ꦶ", "ꦷ", "ꦸ",
                 "ꦹ", "ꦺ", "ꦻ", "ꦼ", "ꦽ", "ꦾ", "ꦿ", "꧀", "꧁", "꧂", "꧃", "꧄", "꧅", "꧆",
                 "꧇", "꧈", "꧉", "꧊", "꧋", "꧌", "꧍", "꧎", "꧚", "꧛", "꧜", "꧝", "꧞", "꧟",
                 "ꧥ", "꧿", "ꪰ", "ꪲ", "ꪳ", "ꪴ", "ꪷ", "ꪸ", "ꪾ", "꪿", "꫁", "꫃", "꫄", "꫅",
                 "꫆", "꫇", "꫈", "꫉", "꫊", "꫋", "꫌", "꫍", "꫎", "꫏", "꫐", "꫑", "꫒", "꫓",
                 "꫔", "꫕", "꫖", "꫗", "꫘", "꫙", "꫚", "꫞", "꫟", "ꫫ", "ꫬ", "ꫭ", "ꫮ", "ꫯ",
                 "꫰", "꫱", "ꫵ", "꫶", "꫷", "꫸", "꫹", "꫺", "꫻", "꫼", "꫽", "꫾", "꫿", "ꯣ",
                 "ꯤ", "ꯥ", "ꯦ", "ꯧ", "ꯨ", "ꯩ", "ꯪ", "꯫", "꯬", "꯭", "꯮", "꯯", "꯺", "꯻",
                 "꯼", "꯽", "꯾", "꯿", "힤", "힥", "힦", "힧", "힨", "힩", "힪", "힫", "힬", "힭",
                 "힮", "힯", "퟇", "퟈", "퟉", "퟊", "퟼", "퟽", "퟾", "퟿", "", "", "", "",
                 "", "", "", "", "", "", "", "", "", "", "", "", "", "",
                 "", "", "", "", "", "", "", "", "", "", "", "", "", "",
                 "", "", "", "", "", "", "", "", "", "", "", "", "", "",
                 "", "", "", "", "", "", "", "", "", "", "", "", "", "",
                 "", "", "", "", "", "", "", "", "", "", "", "", "", "",
                 "", "", "", "", "", "", "", "", "", "", "", "", "", "",
                 "", "", "", "", "", "", "", "", "", "", "", "", "", "",
                 "", "", "", "", "", "", "", "", "", "", "", "", "", "",
                 "", "", "", "", "", "", "", "", "", "", "", "", "", "",
                 "", "", "", "", "", "", "", "", "", "", "", "", "", "",
                 "", "", "", "", "", "", "", "", "", "", "", "", "", "",
                 "", "", "", "", "", "", "", "", "", "", "", "", "", "",
                 "", "", "", "", "", "", "", "", "", "", "", "", "", "",
                 "", "", "", "", "", "", "", "", "", "", "", "", "", "",
                 "", "", "", "", "", "", "", "", "", "", "", "", "", "",
                 "", "", "", "", "", "", "", "", "", "", "", "", "", "",
                 "", "", "", "", "", "", "", "", "", "", "", "", "", "",
                 "", "", "", "", "", "", "", "", "", "", "", "", "", "",
                 "", "", "", "", "", "", "", "", "", "", "", "", "", "",
                 "", "", "", "", "", "", "", "", "", "", "", "", "", "",
                 "", "", "", "", "", "", "", "", "", "", "", "", "", "",
                 "", "", "", "", "", "", "", "", "", "", "", "", "", "",
                 "", "", "", "", "", "", "", "", "", "", "", "", "", "",
                 "", "", "", "", "", "", "", "", "", "", "", "", "", "",
                 "", "", "", "", "", "", "", "", "", "", "", "", "", "",
                 "", "", "", "", "", "", "", "", "", "", "", "", "", "",
                 "", "", "", "", "", "", "", "", "", "", "", "", "", "",
                 "", "", "", "", "", "", "", "", "", "", "", "", "", "",
                 "", "", "", "", "", "", "", "", "", "", "", "", "", "",
                 "", "", "", "", "", "", "", "", "", "", "", "", "", "",
                 "", "", "", "", "", "", "", "", "", "", "", "", "", "",
                 "", "", "", "", "", "", "", "", "", "", "", "", "", "",
                 "", "", "", "", "", "", "", "", "", "", "", "", "", "",
                 "", "", "", "", "", "", "", "", "", "", "", "", "", "",
                 "", "", "", "", "", "", "", "", "", "", "", "", "", "",
                 "", "", "", "", "", "", "", "", "", "", "", "", "", "",
                 "", "", "", "", "", "", "", "", "", "", "", "", "", "",
                 "", "", "", "", "", "", "", "", "", "", "", "", "", "",
                 "", "", "", "", "", "", "", "", "", "", "", "", "", "",
                 "", "", "", "", "", "", "", "", "", "", "", "", "", "",
                 "", "", "", "", "", "", "", "", "", "", "", "", "", "",
                 "", "", "", "", "", "", "", "", "", "", "", "", "", "",
                 "", "", "", "", "", "", "", "", "", "", "", "", "", "",
                 "", "", "", "", "", "", "", "", "", "", "", "", "", "",
                 "", "", "", "", "", "", "", "", "", "", "", "", "", "",
                 "", "", "", "", "", "", "", "", "", "", "", "", "", "",
                 "", "", "", "", "", "", "", "", "", "", "", "", "", "",
                 "", "", "", "", "", "", "", "", "", "", "", "", "", "",
                 "", "", "", "", "", "", "", "", "", "", "", "", "", "",
                 "", "", "", "", "", "", "", "", "", "", "", "", "", "",
                 "", "", "", "", "", "", "", "", "", "", "", "", "", "",
                 "", "", "", "", "", "", "", "", "", "", "", "", "", "",
                 "", "", "", "", "", "", "", "", "", "", "", "", "", "",
                 "", "", "", "", "", "", "", "", "", "", "", "", "", "",
                 "", "", "", "", "", "", "", "", "", "", "", "", "", "",
                 "", "", "", "", "", "", "", "", "", "", "", "", "", "",
                 "", "", "", "", "", "", "", "", "", "", "", "", "", "",
                 "", "", "", "", "", "", "", "", "", "", "", "", "", "",
                 "", "", "", "", "", "", "", "", "", "", "", "", "", "",
                 "", "", "", "", "", "", "", "", "", "", "", "", "", "",
                 "", "", "", "", "", "", "", "", "", "", "", "", "", "",
                 "", "", "", "", "", "", "", "", "", "", "", "", "", "",
                 "", "", "", "", "", "", "", "", "", "", "", "", "", "",
                 "", "", "", "", "", "", "", "", "", "", "", "", "", "",
                 "", "", "", "", "", "", "", "", "", "", "", "", "", "",
                 "", "", "", "", "", "", "", "", "", "", "", "", "", "",
                 "", "", "", "", "", "", "", "", "", "", "", "", "", "",
                 "", "", "", "", "", "", "", "", "", "", "", "", "", "",
                 "", "", "", "", "", "", "", "", "", "", "", "", "", "",
                 "", "", "", "", "", "", "", "", "", "", "", "", "", "",
                 "", "", "", "", "", "", "", "", "", "", "", "", "", "",
                 "", "", "", "", "", "", "", "", "", "", "", "", "", "",
                 "", "", "", "", "", "", "", "", "", "", "", "", "", "",
                 "", "", "", "", "", "", "", "", "", "", "", "", "", "",
                 "", "", "", "", "", "", "", "", "", "", "", "", "", "",
                 "", "", "", "", "", "", "", "", "", "", "", "", "", "",
                 "", "", "", "", "", "", "", "", "", "", "", "", "", "",
                 "", "", "", "", "", "", "", "", "", "", "", "", "", "",
                 "", "", "", "", "", "", "", "", "", "", "", "", "", "",
                 "", "", "", "", "", "", "", "", "", "", "", "", "", "",
                 "", "", "", "", "", "", "", "", "", "", "", "", "", "",
                 "", "", "", "", "", "", "", "", "", "", "", "", "", "",
                 "", "", "", "", "", "", "", "", "", "", "", "", "", "",
                 "", "", "", "", "", "", "", "", "", "", "", "", "", "",
                 "", "", "", "", "", "", "", "", "", "", "", "", "", "",
                 "", "", "", "", "", "", "", "", "", "", "", "", "", "",
                 "", "", "", "", "", "", "", "", "", "", "", "", "", "",
                 "", "", "", "", "", "", "", "", "", "", "", "", "", "",
                 "", "", "", "", "", "", "", "", "", "", "", "", "", "",
                 "", "", "", "", "", "", "", "", "", "", "", "", "", "",
                 "", "", "", "", "", "", "", "", "", "", "", "", "", "",
                 "", "", "", "", "", "", "", "", "", "", "", "", "", "",
                 "", "", "", "", "", "", "", "", "", "", "", "", "", "",
                 "", "", "", "", "", "", "", "", "", "", "", "", "", "",
                 "", "", "", "", "", "", "", "", "", "", "", "", "", "",
                 "", "", "", "", "", "", "", "", "", "", "", "", "", "",
                 "", "", "", "", "", "", "", "", "", "", "", "", "", "",
                 "", "", "", "", "", "", "", "", "", "", "", "", "", "",
                 "", "", "", "", "", "", "", "", "", "", "", "", "", "",
                 "", "", "", "", "", "", "", "", "", "", "", "", "", "",
                 "", "", "", "", "", "", "", "", "", "", "", "", "", "",
                 "", "", "", "", "", "", "", "", "", "", "", "", "", "",
                 "", "", "", "", "", "", "", "", "", "", "", "", "", "",
                 "", "", "", "", "", "", "", "", "", "", "", "", "", "",
                 "", "", "", "", "", "", "", "", "", "", "", "", "", "",
                 "", "", "", "", "", "", "", "", "", "", "", "", "", "",
                 "", "", "", "", "", "", "", "", "", "", "", "", "", "",
                 "", "", "", "", "", "", "", "", "", "", "", "", "", "",
                 "", "", "", "", "", "", "", "", "", "", "", "", "", "",
                 "", "", "", "", "", "", "", "", "", "", "", "", "", "",
                 "", "", "", "", "", "", "", "", "", "", "", "", "", "",
                 "", "", "", "", "", "", "", "", "", "", "", "", "", "",
                 "", "", "", "", "", "", "", "", "", "", "", "", "", "",
                 "", "", "", "", "", "", "", "", "", "", "", "", "", "",
                 "", "", "", "", "", "", "", "", "", "", "", "", "", "",
                 "", "", "", "", "", "", "", "", "", "", "", "", "", "",
                 "", "", "", "", "", "", "", "", "", "", "", "", "", "",
                 "", "", "", "", "", "", "", "", "", "", "", "", "", "",
                 "", "", "", "", "", "", "", "", "", "", "", "", "", "",
                 "", "", "", "", "", "", "", "", "", "", "", "", "", "",
                 "", "", "", "", "", "", "", "", "", "", "", "", "", "",
                 "", "", "", "", "", "", "", "", "", "", "", "", "", "",
                 "", "", "", "", "", "", "", "", "", "", "", "", "", "",
                 "", "", "", "", "", "", "", "", "", "", "", "", "", "",
                 "", "", "", "", "", "", "", "", "", "", "", "", "", "",
                 "", "", "", "", "", "", "", "", "", "", "", "", "", "",
                 "", "", "", "", "", "", "", "", "", "", "", "", "", "",
                 "", "", "", "", "", "", "", "", "", "", "", "", "", "",
                 "", "", "", "", "", "", "", "", "", "", "", "", "", "",
                 "", "", "", "", "", "", "", "", "", "", "", "", "", "",
                 "", "", "", "", "", "", "", "", "", "", "", "", "", "",
                 "", "", "", "", "", "", "", "", "", "", "", "", "", "",
                 "", "", "", "", "", "", "", "", "", "", "", "", "", "",
                 "", "", "", "", "", "", "", "", "", "", "", "", "", "",
                 "", "", "", "", "", "", "", "", "", "", "", "", "", "",
                 "", "", "", "", "", "", "", "", "", "", "", "", "", "",
                 "", "", "", "", "", "", "", "", "", "", "", "", "", "",
                 "", "", "", "", "", "", "", "", "", "", "", "", "", "",
                 "", "", "", "", "", "", "", "", "", "", "", "", "", "",
                 "", "", "", "", "", "", "", "", "", "", "", "", "", "",
                 "", "", "", "", "", "", "", "", "", "", "", "", "", "",
                 "", "", "", "", "", "", "", "", "", "", "", "", "", "",
                 "", "", "", "", "", "", "", "", "", "", "", "", "", "",
                 "", "", "", "", "", "", "", "", "", "", "", "", "", "",
                 "", "", "", "", "", "", "", "", "", "", "", "", "", "",
                 "", "", "", "", "", "", "", "", "", "", "", "", "", "",
                 "", "", "", "", "", "", "", "", "", "", "", "", "", "",
                 "", "", "", "", "", "", "", "", "", "", "", "", "", "",
                 "", "", "", "", "", "", "", "", "", "", "", "", "", "",
                 "", "", "", "", "", "", "", "", "", "", "", "", "", "",
                 "", "", "", "", "", "", "", "", "", "", "", "", "", "",
                 "", "", "", "", "", "", "", "", "", "", "", "", "", "",
                 "", "", "", "", "", "", "", "", "", "", "", "", "", "",
                 "", "", "", "", "", "", "", "", "", "", "", "", "", "",
                 "", "", "", "", "", "", "", "", "", "", "", "", "", "",
                 "", "", "", "", "", "", "", "", "", "", "", "", "", "",
                 "", "", "", "", "", "", "", "", "", "", "", "", "", "",
                 "", "", "", "", "", "", "", "", "", "", "", "", "", "",
                 "", "", "", "", "", "", "", "", "", "", "", "", "", "",
                 "", "", "", "", "", "", "", "", "", "", "", "", "", "",
                 "", "", "", "", "", "", "", "", "", "", "", "", "", "",
                 "", "", "", "", "", "", "", "", "", "", "", "", "", "",
                 "", "", "", "", "", "", "", "", "", "", "", "", "", "",
                 "", "", "", "", "", "", "", "", "", "", "", "", "", "",
                 "", "", "", "", "", "", "", "", "", "", "", "", "", "",
                 "", "", "", "", "", "", "", "", "", "", "", "", "", "",
                 "", "", "", "", "", "", "", "", "", "", "", "", "", "",
                 "", "", "", "", "", "", "", "", "", "", "", "", "", "",
                 "", "", "", "", "", "", "", "", "", "", "", "", "", "",
                 "", "", "", "", "", "", "", "", "", "", "", "", "", "",
                 "", "", "", "", "", "", "", "", "", "", "", "", "", "",
                 "", "", "", "", "", "", "", "", "", "", "", "", "", "",
                 "", "", "", "", "", "", "", "", "", "", "", "", "", "",
                 "", "", "", "", "", "", "", "", "", "", "", "", "", "",
                 "", "", "", "", "", "", "", "", "", "", "", "", "", "",
                 "", "", "", "", "", "", "", "", "", "", "", "", "", "",
                 "", "", "", "", "", "", "", "", "", "", "", "", "", "",
                 "", "", "", "", "", "", "", "", "", "", "", "", "", "",
                 "", "", "", "", "", "", "", "", "", "", "", "", "", "",
                 "", "", "", "", "", "", "", "", "", "", "", "", "", "",
                 "", "", "", "", "", "", "", "", "", "", "", "", "", "",
                 "", "", "", "", "", "", "", "", "", "", "", "", "", "",
                 "", "", "", "", "", "", "", "", "", "", "", "", "", "",
                 "", "", "", "", "", "", "", "", "", "", "", "", "", "",
                 "", "", "", "", "", "", "", "", "", "", "", "", "", "",
                 "", "", "", "", "", "", "", "", "", "", "", "", "", "",
                 "", "", "", "", "", "", "", "", "", "", "", "", "", "",
                 "", "", "", "", "", "", "", "", "", "", "", "", "", "",
                 "", "", "", "", "", "", "", "", "", "", "", "", "", "",
                 "", "", "", "", "", "", "", "", "", "", "", "", "", "",
                 "", "", "", "", "", "", "", "", "", "", "", "", "", "",
                 "", "", "", "", "", "", "", "", "", "", "", "", "", "",
                 "", "", "", "", "", "", "", "", "", "", "", "", "", "",
                 "", "", "", "", "", "", "", "", "", "", "", "", "", "",
                 "", "", "", "", "", "", "", "", "", "", "", "", "", "",
                 "", "", "", "", "", "", "", "", "", "", "", "", "", "",
                 "", "", "", "", "", "", "", "", "", "", "", "", "", "",
                 "", "", "", "", "", "", "", "", "", "", "", "", "", "",
                 "", "", "", "", "", "", "", "", "", "", "", "", "", "",
                 "", "", "", "", "", "", "", "", "", "", "", "", "", "",
                 "", "", "", "", "", "", "", "", "", "", "", "", "", "",
                 "", "", "", "", "", "", "", "", "", "", "", "", "", "",
                 "", "", "", "", "", "", "", "", "", "", "", "", "", "",
                 "", "", "", "", "", "", "", "", "", "", "", "", "", "",
                 "", "", "", "", "", "", "", "", "", "", "", "", "", "",
                 "", "", "", "", "", "", "", "", "", "", "", "", "", "",
                 "", "", "", "", "", "", "", "", "", "", "", "", "", "",
                 "", "", "", "", "", "", "", "", "", "", "", "", "", "",
                 "", "", "", "", "", "", "", "", "", "", "", "", "", "",
                 "", "", "", "", "", "", "", "", "", "", "", "", "", "",
                 "", "", "", "", "", "", "", "", "", "", "", "", "", "",
                 "", "", "", "", "", "", "", "", "", "", "", "", "", "",
                 "", "", "", "", "", "", "", "", "", "", "", "", "", "",
                 "", "", "", "", "", "", "", "", "", "", "", "", "", "",
                 "", "", "", "", "", "", "", "", "", "", "", "", "", "",
                 "", "", "", "", "", "", "", "", "", "", "", "", "", "",
                 "", "", "", "", "", "", "", "", "", "", "", "", "", "",
                 "", "", "", "", "", "", "", "", "", "", "", "", "", "",
                 "", "", "", "", "", "", "", "", "", "", "", "", "", "",
                 "", "", "", "", "", "", "", "", "", "", "", "", "", "",
                 "", "", "", "", "", "", "", "", "", "", "", "", "", "",
                 "", "", "", "", "", "", "", "", "", "", "", "", "", "",
                 "", "", "", "", "", "", "", "", "", "", "", "", "", "",
                 "", "", "", "", "", "", "", "", "", "", "", "", "", "",
                 "", "", "", "", "", "", "", "", "", "", "", "", "", "",
                 "", "", "", "", "", "", "", "", "", "", "", "", "", "",
                 "", "", "", "", "", "", "", "", "", "", "", "", "", "",
                 "", "", "", "", "", "", "", "", "", "", "", "", "", "",
                 "", "", "", "", "﫚", "﫛", "﫜", "﫝", "﫞", "﫟", "﫠", "﫡", "﫢", "﫣",
                 "﫤", "﫥", "﫦", "﫧", "﫨", "﫩", "﫪", "﫫", "﫬", "﫭", "﫮", "﫯", "﫰", "﫱",
                 "﫲", "﫳", "﫴", "﫵", "﫶", "﫷", "﫸", "﫹", "﫺", "﫻", "﫼", "﫽", "﫾", "﫿",
                 "﮲", "﮳", "﮴", "﮵", "﮶", "﮷", "﮸", "﮹", "﮺", "﮻", "﮼", "﮽", "﮾", "﮿",
                 "﯀", "﯁", "﯂", "﯃", "﯄", "﯅", "﯆", "﯇", "﯈", "﯉", "﯊", "﯋", "﯌", "﯍",
                 "﯎", "﯏", "﯐", "﯑", "﯒", "﶐", "﶑", "﷈", "﷉", "﷊", "﷋", "﷌", "﷍", "﷎",
                 "﷏", "﷐", "﷑", "﷒", "﷓", "﷔", "﷕", "﷖", "﷗", "﷘", "﷙", "﷚", "﷛", "﷜",
                 "﷝", "﷞", "﷟", "﷠", "﷡", "﷢", "﷣", "﷤", "﷥", "﷦", "﷧", "﷨", "﷩", "﷪",
                 "﷫", "﷬", "﷭", "﷮", "﷯", "﷼", "﷽", "﷾", "﷿", "﻽", "﻾", "﻿", "﾿", "￀",
                 "￁", "￈", "￉", "￐", "￑", "￘", "￙", "￝", "￞", "￟", "￠", "￡", "￢", "￣",
                 "￤", "￥", "￦", "￧", "￨", "￩", "￪", "￫", "￬", "￭", "￮", "￯", "￰", "￱",
                 "￲", "￳", "￴", "￵", "￶", "￷", "￸", "￹", "￺", "￻", "￼", "�", "￾", "￿"}

\* \w: ASCII letters, digits and "_", and every character beyond ASCII that is
\* not in NonWordChars
IsWordChar(c) == c \in AsciiWordChars \/ (c \notin AsciiNonWord /\ c \notin NonWordChars)

\* re.search(r"\bw\b", t) for a word w of letters (str.contains, line 31)
HasWord(t, w) ==
    \E p \in 1..(Len(t) - Len(w) + 1) :
        /\ SubSeq(t, p, p + Len(w) - 1) = w
        /\ (p = 1 \/ ~IsWordChar(t[p - 1]))
        /\ (p + Len(w) > Len(t) \/ ~IsWordChar(t[p + Len(w)]))

RowHas(row, w) == \E c \in 1..Len(row) : HasWord(strip(row[c]), w)

\* find_header_row(df): the index (0-based) of the first of the first 25 rows
\* that holds the words Rank and Name, else 0
HeaderRows == 25
find_header_row(df) ==
    LET H == {q \in 0..(Min(Len(df), HeaderRows) - 1) :
                RowHas(df[q + 1], TextRank) /\ RowHas(df[q + 1], TextName)}
    IN  IF H = {} THEN 0 ELSE CHOOSE q \in H : \A o \in H : q <= o

\* the cells of a row in the columns of keep, in order
RECURSIVE Pick(_, _, _)
Pick(row, keep, c) ==
    IF c > Len(row) THEN <<>>
    ELSE (IF c \in keep THEN <<row[c]>> ELSE <<>>) \o Pick(row, keep, c + 1)

\* line 66: a row that is not fully empty
RowNotEmpty(row) == \E c \in 1..Len(row) : row[c].t # <<>>

\* clean_table_keep_all_cols(t) for the grid of t
clean_table_keep_all_cols(t) ==
    LET keep == {c \in 1..Len(t[1]) : \E r \in 1..Len(t) : t[r][c] # <<>>}
        df == [r \in 1..Len(t) |-> Pick(t[r], keep, 1)]
        hdr_idx == find_header_row(df)
        headers == make_unique_columns(
                       [c \in 1..Len(df[hdr_idx + 1]) |-> strip(df[hdr_idx + 1][c])])
        body == [r \in 1..(Len(df) - hdr_idx - 1) |->
                    [c \in 1..Len(headers) |-> Str(strip(df[hdr_idx + 1 + r][c]))]]
    IN  [columns |-> make_unique_columns(headers),
         data |-> SelectSeq(body, RowNotEmpty)]

\* df.empty
IsEmpty(df) == df.columns = <<>> \/ df.data = <<>>

\* c.replace("Pen.", "Pen") (line 98)
RECURSIVE replace_pen(_)
replace_pen(c) ==
    IF c = <<>> THEN <<>>
    ELSE IF Len(c) >= 4 /\ SubSeq(c, 1, 4) = TextPenDot
         THEN TextPen \o replace_pen(SubSeq(c, 5, Len(c)))
         ELSE <<Head(c)>> \o replace_pen(Tail(c))

\* line 95 raises ValueError when df already has a column Event
InsertFails(df) == \E q \in 1..Len(df.columns) : df.columns[q] = TextEvent

\* lines 95-98: the Event column inserted first, "Pen." renamed
PageBlock(df, ev) ==
    [columns |-> <<TextEvent>> \o [q \in 1..Len(df.columns) |-> replace_pen(df.columns[q])],
     data |-> [r \in 1..Len(df.data) |-> <<Str(ev)>> \o df.data[r]]]

\* lines 108-112: the union of the column names, first seen first
RECURSIVE add_cols(_, _)
add_cols(master, cs) ==
    IF cs = <<>> THEN master
    ELSE add_cols(IF \E q \in 1..Len(master) : master[q] = Head(cs)
                  THEN master ELSE Append(master, Head(cs)),
                  Tail(cs))

RECURSIVE master_cols_of(_, _)
master_cols_of(blocks, master) ==
    IF blocks = <<>> THEN master
    ELSE master_cols_of(Tail(blocks), add_cols(master, Head(blocks).columns))

\* pandas raises ValueError when it reindexes an axis with duplicate labels
HasDuplicates(cs) == \E a, b \in 1..Len(cs) : a # b /\ cs[a] = cs[b]

PosOf(cs, c) == CHOOSE q \in 1..Len(cs) : cs[q] = c

\* d.reindex(columns=master_cols) for a block with unique column names (line 115)
reindex(d, master) ==
    [columns |-> master,
     data |-> [r \in 1..Len(d.data) |->
                 [q \in 1..Len(master) |->
                    IF \E o \in 1..Len(d.columns) : d.columns[o] = master[q]
                    THEN d.data[r][PosOf(d.columns, master[q])]
                    ELSE NaNCell]]]

\* pd.concat(normed, ignore_index=True) of frames with the same columns (line 117)
concat(frames) ==
    [columns |-> frames[1].columns,
     data |-> Flatten([b \in 1..Len(frames) |-> frames[b].data])]

\* the value of a sequence of decimal digits
DigitVal(ch) == CHOOSE d \in 0..9 : DigitChars[d + 1] = ch
RECURSIVE ValueOf(_)
ValueOf(ds) ==
    IF ds = <<>> THEN 0 ELSE ValueOf(SubSeq(ds, 1, Len(ds) - 1)) * 10 + DigitVal(ds[Len(ds)])

AllDigits(ds) == \A q \in 1..Len(ds) : ds[q] \in {DigitChars[d] : d \in 1..10}

\* What pandas reads in a text cell (line 123): None when it is not a number,
\* else [int, neg, v]: an optional sign, digits and an optional point with
\* digits, at least one digit in all; int tells that there is no point.
ParseNumber(t) ==
    LET signed == t # <<>> /\ t[1] \in {"-", "+"}
        body == IF signed THEN Tail(t) ELSE t
        dots == {q \in 1..Len(body) : body[q] = "."}
        dot == IF dots = {} THEN Len(body) + 1 ELSE CHOOSE q \in dots : \A o \in dots : q <= o
        ip == SubSeq(body, 1, dot - 1)
        fp == SubSeq(body, dot + 1, Len(body))
        fp4 == SubSeq(fp \o <<"0", "0", "0", "0">>, 1, 4)
        mag == ValueOf(ip) * Unit + ValueOf(fp4)
        neg == signed /\ t[1] = "-"
    IN  IF AllDigits(ip) /\ AllDigits(fp) /\ Len(ip) + Len(fp) >= 1
        THEN Some([int |-> dots = {}, neg |-> neg, v |-> IF neg THEN -mag ELSE mag])
        ELSE None

\* the number a cell converts to: the empty text and the missing value are
\* NaN, a text that is not a number has none
CellNumber(x) ==
    IF x.k = "nan" \/ x.t = <<>> THEN Some([int |-> FALSE, nan |-> TRUE, neg |-> FALSE, v |-> 0])
    ELSE IF ParseNumber(x.t) = None THEN None
    ELSE LET n == ParseNumber(x.t)[1]
         IN  Some([int |-> n.int, nan |-> FALSE, neg |-> n.neg, v |-> n.v])

\* pd.to_numeric(column, errors="ignore"): the column unchanged when a cell is
\* not a number, int64 when every cell is an integer, else float64
to_numeric_ignore(col) ==
    IF \E r \in 1..Len(col) : CellNumber(col[r]) = None THEN col
    ELSE IF \A r \in 1..Len(col) : CellNumber(col[r])[1].int
         THEN [r \in 1..Len(col) |-> IntCell(CellNumber(col[r])[1].v)]
         ELSE [r \in 1..Len(col) |->
                 LET n == CellNumber(col[r])[1]
                 IN  IF n.nan THEN NaNCell ELSE FloatCell(n.neg, n.v)]

\* lines 119-123: the numeric pass over every column but Event and Name
numeric_pass(df) ==
    LET column(q) == [r \in 1..Len(df.data) |-> df.data[r][q]]
        done == [q \in 1..Len(df.columns) |->
                    IF df.columns[q] \in {TextEvent, TextName} THEN column(q)
                    ELSE to_numeric_ignore(column(q))]
    IN  [columns |-> df.columns,
         data |-> [r \in 1..Len(df.data) |-> [q \in 1..Len(df.columns) |-> done[q][r]]]]

\* the decimals of a float as str() prints them: the four digits of v, a
\* number of units below 1.0, without trailing zeros but for one digit
RECURSIVE TrimZeros(_)
TrimZeros(t) ==
    IF Len(t) > 1 /\ t[Len(t)] = "0" THEN TrimZeros(SubSeq(t, 1, Len(t) - 1)) ELSE t
Decimals(v) == TrimZeros([q \in 1..4 |-> DigitChars[((v \div (10 ^ (4 - q))) % 10) + 1]])

\* a field of the file: texts as they are, NaN as the empty text, numbers as
\* str() prints them
FieldText(x) ==
    IF x.k = "str" THEN x.t
    ELSE IF x.k = "nan" THEN <<>>
    ELSE IF x.k = "int" THEN (IF x.v < 0 THEN <<"-">> ELSE <<>>) \o Digits(Abs(x.v) \div Unit)
    ELSE (IF x.neg THEN <<"-">> ELSE <<>>) \o Digits(Abs(x.v) \div Unit) \o <<".">>
            \o Decimals(Abs(x.v) % Unit)

\* csv.writer, QUOTE_MINIMAL: a field that holds a comma, a quote or a line
\* feed is put in quotes, its quotes doubled
RECURSIVE DoubleQuotes(_)
DoubleQuotes(t) ==
    IF t = <<>> THEN <<>>
    ELSE (IF Head(t) = "\"" THEN <<"\"", "\"">> ELSE <<Head(t)>>) \o DoubleQuotes(Tail(t))

CsvField(t) ==
    IF \E q \in 1..Len(t) : t[q] \in {",", "\"", "\n"}
    THEN <<"\"">> \o DoubleQuotes(t) \o <<"\"">>
    ELSE t

RECURSIVE CsvFields(_)
CsvFields(fields) ==
    IF Len(fields) = 1 THEN CsvField(fields[1]) \o <<"\n">>
    ELSE CsvField(fields[1]) \o <<",">> \o CsvFields(Tail(fields))

\* writer.writerow(fields): a record of one empty field is written in quotes
CsvRecord(fields) ==
    IF fields = << <<>> >> THEN <<"\"", "\"", "\n">> ELSE CsvFields(fields)

\* out_df.to_csv(out_csv, index=False) (line 125): the text of the file
to_csv(df) ==
    CsvRecord(df.columns)
        \o Flatten([r \in 1..Len(df.data) |->
                      CsvRecord([q \in 1..Len(df.columns) |-> FieldText(df.data[r][q])])])

\* print(f"Saved {len(out_df)} rows to {out_csv}") (line 126)
TextSaved == <<"S", "a", "v", "e", "d", " ">>
TextRowsTo == <<" ", "r", "o", "w", "s", " ", "t", "o", " ">>
SavedMessage(df) == TextSaved \o Digits(Len(df.data)) \o TextRowsTo \o OUT_CSV
\* print("No tables extracted.") (line 103)
TextNoTables == <<"N", "o", " ", "t", "a", "b", "l", "e", "s", " ",
                  "e", "x", "t", "r", "a", "c", "t", "e", "d", ".">>

\* The header rows of the tables: ["Rank", "Name"], ["Rank", "Pen.", "D"],
\* ["D", "Rank<LF>"], ["Rank", ""], ["Pen", "Pen."], [" Event", "Rank"],
\* ["A", "A", "A_2", "A_2_2"]
HeaderPool == {<<TextRank, TextName>>, <<TextRank, TextPenDot, TextD>>,
               <<TextD, TextRank \o <<"\n">> >>, <<TextRank, <<>> >>,
               <<TextPen, TextPenDot>>, << <<" ">> \o TextEvent, TextRank>>,
               <<NameA, NameA, NameA2, NameA22>>}
EventNames == {TextVault, TextUnknown}

\* The rows below the header row, by kind; p is the page, r the row and c the
\* column, and prc the digits of the three:
\*   "num"    "prc" in odd columns and " prc.500" in even ones
\*   "text"   "xprc"
\*   "half"   "prc" in the first column and "" in the others
\*   "blank"  " " in every column
\*   "head"   "Rank" in odd columns and "Name" in even ones
RowKinds == {"num", "text", "half", "blank", "head"}
CellOf(kind, p, r, c) ==
    LET prc == Digits(100 * p + 10 * r + c)
    IN  CASE kind = "num" -> IF c % 2 = 1 THEN prc
                             ELSE <<" ">> \o prc \o <<".", "5", "0", "0">>
          [] kind = "text" -> <<"x">> \o prc
          [] kind = "half" -> IF c = 1 THEN prc ELSE <<>>
          [] kind = "blank" -> <<" ">>
          [] OTHER -> IF c % 2 = 1 THEN TextRank ELSE TextName

\* the tables page p can hold: a header row and up to MaxDataRows rows, and
\* the tables with the header row ["Rank", "Name"] below a title row
\* ["Ranké", "Name"], which does not hold the word Rank (é is a word
\* character) and so is not the header row
TablePool(p) ==
    LET title == <<TextRank \o <<"é">>, TextName>>
        plain == {<<h>> \o [r \in 1..Len(kinds) |->
                               [c \in 1..Len(h) |-> CellOf(kinds[r], p, r, c)]] :
                     h \in HeaderPool, kinds \in SeqsUpTo(RowKinds, MaxDataRows)}
    IN  plain \cup {<<title>> \o t : t \in {u \in plain : u[1] = <<TextRank, TextName>>}}

InitEvents ==
    /\ all_rows = <<>>
    /\ normed = None
    /\ out_df = None
    /\ out_csv = None
    /\ report = None
    /\ pc = "pages"
    /\ i = 0
    /\ lines = Idle /\ j = 0 /\ ctx_rank = Idle /\ ctx_noc = Idle
    /\ bib = Idle /\ name = Idle /\ ds_tokens = Idle /\ e_tokens = Idle
    /\ rows = Idle /\ records = Idle /\ raw = Idle /\ cols = Idle /\ parsed = Idle

NotEvents == UNCHANGED <<lines, j, ctx_rank, ctx_noc, bib, name, ds_tokens, e_tokens,
                         rows, records, raw, cols, parsed>>

\* lines 82-100: a page with a table; i counts the pages read
AddPage ==
    /\ pc = "pages" /\ i < MaxPages
    /\ \E t \in TablePool(i + 1), ev \in EventNames :
          LET df == clean_table_keep_all_cols(t)
          IN  /\ ~IsEmpty(df)
              /\ ~InsertFails(df)
              /\ all_rows' = Append(all_rows, PageBlock(df, ev))
    /\ i' = i + 1
    /\ UNCHANGED <<pc, normed, out_df, out_csv, report>>
    /\ NotEvents

\* lines 84-85 and 91-92: a page without a table, or with an empty one
SkipPage ==
    /\ pc = "pages" /\ i < MaxPages
    /\ \E t \in {<<>>} \cup TablePool(i + 1) :
          IF t = <<>> THEN TRUE ELSE IsEmpty(clean_table_keep_all_cols(t))
    /\ i' = i + 1
    /\ UNCHANGED <<pc, all_rows, normed, out_df, out_csv, report>>
    /\ NotEvents

\* line 95 when the table has a column named Event: insert raises ValueError
InsertRaises ==
    /\ pc = "pages" /\ i < MaxPages
    /\ \E t \in TablePool(i + 1) :
          LET df == clean_table_keep_all_cols(t)
          IN  ~IsEmpty(df) /\ InsertFails(df)
    /\ pc' = "insert raised"
    /\ UNCHANGED <<i, all_rows, normed, out_df, out_csv, report>>
    /\ NotEvents

\* lines 102-104
NoTables ==
    /\ pc = "pages" /\ all_rows = <<>>
    /\ report' = Some(TextNoTables)
    /\ pc' = "nothing"
    /\ UNCHANGED <<i, all_rows, normed, out_df, out_csv>>
    /\ NotEvents

\* lines 106-126 when every block has unique column names: the blocks are
\* aligned and concatenated, the numeric pass runs, the file is written
Align ==
    /\ pc = "pages" /\ all_rows # <<>>
    /\ \A b \in 1..Len(all_rows) : ~HasDuplicates(all_rows[b].columns)
    /\ LET master_cols == master_cols_of(all_rows, <<>>)
           frames == [b \in 1..Len(all_rows) |-> reindex(all_rows[b], master_cols)]
           df == numeric_pass(concat(frames))
       IN  /\ normed' = Some(frames)
           /\ out_df' = Some(df)
           /\ out_csv' = Some(to_csv(df))
           /\ report' = Some(SavedMessage(df))
    /\ pc' = "saved"
    /\ UNCHANGED <<i, all_rows>>
    /\ NotEvents

\* line 115 when a block has a repeated column name: reindex raises
AlignRaises ==
    /\ pc = "pages" /\ all_rows # <<>>
    /\ \E b \in 1..Len(all_rows) : HasDuplicates(all_rows[b].columns)
    /\ pc' = "raised"
    /\ UNCHANGED <<i, all_rows, normed, out_df, out_csv, report>>
    /\ NotEvents

NextEvents == AddPage \/ SkipPage \/ InsertRaises \/ NoTables \/ Align \/ AlignRaises

SpecEvents == InitEvents /\ [][NextEvents]_vars

\* all column names of the blocks, block by block and left to right
AllColumns == Flatten([b \in 1..Len(all_rows) |-> all_rows[b].columns])
FirstSeen(c) == CHOOSE q \in 1..Len(AllColumns) :
                    AllColumns[q] = c /\ \A o \in 1..(q - 1) : AllColumns[o] # c

\* the number of rows of the blocks before block b
RECURSIVE RowsBefore(_)
RowsBefore(b) == IF b <= 1 THEN 0 ELSE RowsBefore(b - 1) + Len(all_rows[b - 1].data)

\* the frame is the column union in first-seen order with every block's rows
\* in source order, their values kept and the missing value elsewhere
IsColumnUnion(df) ==
    /\ Range(df.columns) = Range(AllColumns)
    /\ \A a, b \in 1..Len(df.columns) :
          a < b => FirstSeen(df.columns[a]) < FirstSeen(df.columns[b])
    /\ Len(df.data) = RowsBefore(Len(all_rows) + 1)
    /\ \A b \in 1..Len(all_rows) : \A r \in 1..Len(all_rows[b].data) :
          LET row == df.data[RowsBefore(b) + r]
          IN  /\ Len(row) = Len(df.columns)
              /\ \A q \in 1..Len(df.columns) :
                    IF \E o \in 1..Len(all_rows[b].columns) :
                            all_rows[b].columns[o] = df.columns[q]
                    THEN \E o \in 1..Len(all_rows[b].columns) :
                            /\ all_rows[b].columns[o] = df.columns[q]
                            /\ row[q] = all_rows[b].data[r][o]
                    ELSE row[q] = NaNCell

\* the output of step 3 (line 117), and that the numeric pass keeps its shape
Step3OK ==
    /\ IsColumnUnion(concat(normed[1]))
    /\ out_df[1].columns = concat(normed[1]).columns
    /\ Len(out_df[1].data) = Len(concat(normed[1]).data)

\* C7: once step 3 has run on a non-empty sequence of blocks, the output is
\* the first-seen-order column union with every block's rows in source order.
C7_SchemaNormalizer ==
    pc \in {"saved", "raised"} => pc = "saved" /\ Step3OK

\* step 3 on blocks whose column names are unique within each block
C7_UniqueBlocks ==
    /\ pc = "saved" => Step3OK
    /\ pc = "raised" => \E b \in 1..Len(all_rows) : HasDuplicates(all_rows[b].columns)

\* a run in which two blocks with different columns were aligned
C7_UniqueBlocksWitness ==
    /\ pc = "saved" /\ Len(all_rows) = 2
    /\ all_rows[1].columns = <<TextEvent, TextRank, TextPen, TextD>>
    /\ all_rows[2].columns = <<TextEvent, TextD, TextRank>>
    /\ Len(all_rows[1].data) = 2

=============================================================================
